---- MODULE Spec2Model ----
(***************************************************************************)
(* Model of gensim/models/sent2vec.py (class Sent2Vec).                    *)
(*                                                                         *)
(* Two state machines share this module:                                   *)
(*   TrainSpec / TrainFairSpec : one call of Sent2Vec.train, i.e. the      *)
(*       producer thread (job_producer), the worker threads (worker_loop)  *)
(*       and the reporting loop of the calling thread, connected by the    *)
(*       two bounded queues job_queue and progress_queue.                  *)
(*   NegSpec : build_vocab's negative table and concurrent calls of        *)
(*       get_negative on the shared cursor negpos.                         *)
(*                                                                         *)
(* Learning rates are kept exactly, as integers: a rate r is stored as     *)
(* r * 1000 * LrDen, LrDen being ntokens * epochs.                         *)
(* Python indices are 0-based; TLA+ sequences are 1-based, so              *)
(* negatives[p] of the source is negatives[p + 1] here.                    *)
(***************************************************************************)
EXTENDS Integers, Sequences, FiniteSets, TLC

VARIABLES
    \* ---- arguments and configuration of the train call ----
    dictBuilt,                \* self.dict is not None
    workers,                  \* self.workers
    queue_factor,             \* train(queue_factor=...)
    epochs,                   \* self.epochs
    batch_words,              \* self.batch_words
    corpus,                   \* the sentences argument: a sequence of sentences
    \* ---- the calling thread of train ----
    pcMain,                   \* "idle", "loop", "returned", "raised"
    exc,                      \* exception that left train, "none" if none
    job_queue,                \* Queue(maxsize=queue_factor * workers)
    progress_queue,           \* Queue(maxsize=(queue_factor + 1) * workers)
    unfinished_worker_count,
    job_tally,
    trained_word_count,
    raw_word_count,
    train_count,              \* self.train_count
    \* ---- job_producer ----
    pcProd,                   \* "idle", "loop", "sentinels", "done", "raised"
    sent_idx,                 \* number of sentences of the stream consumed
    job_batch,                \* stream positions of the sentences in the batch
    batch_size,
    pushed_words,
    next_lr,
    job_no,
    sentinels,                \* sentinels put so far (the xrange index)
    \* ---- worker_loop, one per worker ----
    pcW,                      \* "idle", "get", "report", "marker", "exited"
    curJob,                   \* the job a worker holds
    \* ---- history (not program state) ----
    dispatched,               \* the jobs in the order they were enqueued
    takenCount,               \* per job: times it was dequeued by a worker
    reportCount,              \* per job: progress reports pushed for it
    consumedCount,            \* per job: data reports read by the main loop
    \* ---- negative sampling (NegSpec) ----
    vocabSize,                \* self.dict.size, 0 while self.dict is None
    negatives,                \* self.negatives
    negpos,                   \* self.negpos
    gpc,                      \* per worker: "idle", "read", "load", "store", "ret"
    gtarget,                  \* per worker: the target argument
    gnegative,                \* per worker: the local `negative`
    gloaded,                  \* per worker: the value of self.negpos it loaded
    gstart,                   \* history: cursor position at the call's first read
    ginterfered,              \* history: another worker stored negpos meanwhile
    \* ---- ModelDictionary (self.dict); its size field is vocabSize ----
    max_vocab_size,           \* self.max_vocab_size, the capacity of word2int
    words,                    \* self.words: entries [word, count], id i at i + 1
    word2int,                 \* self.word2int: slot h at h + 1, -1 if empty
    dict_ntokens,             \* self.ntokens
    pdiscard,                 \* self.pdiscard: per id, the count f is taken from
    subwords,                 \* the list object every Entry's subwords refers to
    dpc,                      \* caller of the dictionary: "ready", "hung"
    \* ---- a find call, stepped ----
    fpc,                      \* "idle", "probe", "done"
    fword,                    \* the word argument
    fh,                       \* the local h
    fwrapped,                 \* history: the probe came back to its first slot
    fprev,                    \* history: word and result of the previous call
    \* ---- history of the last add / threshold call ----
    lastOp,                   \* [op, word, t]
    prevDict,                 \* the dictionary before that call
    \* ---- build_vocab and read ----
    sentence,                 \* the words of the sentences argument, in order
    min_count,                \* self.min_count
    minn,                     \* self.minn
    maxn,                     \* self.maxn
    pcBuild,                  \* "idle", "new", "read", "read_done", "returned", "raised"
    buildExc,                 \* exception that left build_vocab, "none" if none
    read_idx,                 \* words of the stream consumed by read
    min_threshold,            \* read's local min_threshold
    applied,                  \* history: the t of each progressive threshold
    wi_rows,                  \* rows of self.wi, -1 while not allocated
    wo_rows,                  \* rows of self.wo, -1 while not allocated
    \* ---- a call of add_ngrams or of add_ngrams_train ----
    ng_context,               \* the context argument
    ng_n,                     \* the n argument
    ng_k,                     \* the k argument (add_ngrams_train)
    ng_pc,                    \* "idle", "discard", "done"
    ng_fn,                    \* "none", "add_ngrams", "add_ngrams_train"
    ng_discard,               \* the local discard, position i at i + 1
    ng_num_discarded,         \* the local num_discarded
    ng_line,                  \* the list returned
    \* ---- _do_train_job, one per worker ----
    jpc,                      \* "idle", "line", "update"
    jwords,                   \* the ids get_line returned for the sentence
    ji,                       \* the index i of the loop over these ids
    jcontext,                 \* the input_ of the update under way
    \* ---- one call of hash_ on Python's unbounded integers ----
    hpc,                      \* "idle", "loop", "returned"
    hword,                    \* the argument word
    hidx,                     \* the loop index i
    hval,                     \* h, as its base-256 digits, lowest first
    \* ---- update / negative_sampling / binary_logistic, one per worker ----
    upc,                      \* "idle", "called", "sum", "ns", "logit", "wi"
    ulen,                     \* len(input_)
    utarget,                  \* target
    uk,                       \* the index of the loop under way
    hidden,                   \* self.hidden: who allocated it, who added to it
    grad,                     \* self.grad: who allocated it, who added to it
    uhidden,                  \* the self.hidden a worker's last logistic step read
    ugrad                     \* the self.grad a worker last added to wi

trainVars == <<dictBuilt, workers, queue_factor, epochs, batch_words, corpus,
               pcMain, exc, job_queue, progress_queue, unfinished_worker_count,
               job_tally, trained_word_count, raw_word_count, train_count,
               pcProd, sent_idx, job_batch, batch_size, pushed_words, next_lr,
               job_no, sentinels, pcW, curJob,
               dispatched, takenCount, reportCount, consumedCount>>

negVars == <<vocabSize, negatives, negpos, gpc, gtarget, gnegative, gloaded,
             gstart, ginterfered>>

dictVars == <<max_vocab_size, words, word2int, dict_ntokens, pdiscard, subwords,
              dpc, fpc, fword, fh, fwrapped, fprev, lastOp, prevDict>>

readVars == <<sentence, min_count, minn, maxn, pcBuild, buildExc, read_idx, min_threshold,
              applied, wi_rows, wo_rows>>

ngramVars == <<ng_context, ng_n, ng_k, ng_pc, ng_fn, ng_discard,
               ng_num_discarded, ng_line>>

jobVars == <<jpc, jwords, ji, jcontext>>

hashVars == <<hpc, hword, hidx, hval>>

updVars == <<upc, ulen, utarget, uk, hidden, grad, uhidden, ugrad>>

moreVars == <<hashVars, updVars>>

auxVars == <<ngramVars, jobVars, moreVars>>

restVars == <<dictVars, readVars, auxVars>>

vars == <<trainVars, negVars, restVars>>

(***************************************************************************)
(* Bounds of the model.                                                    *)
(***************************************************************************)
MaxWorkers == 2
MaxStreamLen == 4
MaxSentLen == 2
MaxBatchWords == 2
MaxVocab == 3
MaxRoot == 2
\* self.negative_table_size is 10000000 in the source; the model scales it down.
negative_table_size == 2

(***************************************************************************)
(* Program constants: the defaults lr=0.2 and min_lr=0.001, in thousandths.*)
(***************************************************************************)
lr == 200
min_lr == 1

(***************************************************************************)
(* Program constant: the default of train's queue_factor argument.         *)
(***************************************************************************)
DefaultQueueFactor == 2

WorkerIds == 1..MaxWorkers

(***************************************************************************)
(* Helpers.                                                                *)
(***************************************************************************)
Max(a, b) == IF a >= b THEN a ELSE b

RECURSIVE SumSeq(_)
SumSeq(s) == IF s = <<>> THEN 0 ELSE Head(s) + SumSeq(Tail(s))

RECURSIVE Repeat(_, _)
Repeat(s, n) == IF n = 0 THEN <<>> ELSE s \o Repeat(s, n - 1)

RECURSIVE Flatten(_)
Flatten(ss) == IF ss = <<>> THEN <<>> ELSE Head(ss) \o Flatten(Tail(ss))

\* A sentence: raw = len(sentence), voc = the number of its tokens get_line
\* resolves.  In the corpora of the model the last word of every sentence of
\* more than one word is a word the dictionary does not retain.
Sentences == {[raw |-> n, voc |-> IF n > 1 THEN n - 1 ELSE n] : n \in 1..MaxSentLen}

Corpora == UNION {[1..n -> Sentences] : n \in 1..MaxStreamLen}

RawLens(c) == [i \in 1..Len(c) |-> c[i].raw]
VocLens(c) == [i \in 1..Len(c) |-> c[i].voc]

\* self.dict.ntokens: add counts every token of the corpus read by build_vocab.
ntokens == SumSeq(RawLens(corpus))

\* `if self.epochs > 1: total_words = ...`: the only assignment of total_words.
total_words_bound == epochs > 1
total_words == ntokens * epochs

\* utils.RepeatCorpusNTimes(sentences, self.epochs), only when epochs > 1.
Stream == IF epochs > 1 THEN Repeat(corpus, epochs) ELSE corpus

LrDen == ntokens * epochs
start_lr == lr * LrDen
end_lr == min_lr * LrDen

\* The queue items.  None is the shutdown sentinel / the completion marker.
NoneJob == [id |-> 0, sents |-> <<>>, lr |-> 0]
NoneReport == [job |-> 0, raw |-> 0, trained |-> 0]

JobQueueMax == queue_factor * workers
ProgressQueueMax == (queue_factor + 1) * workers

\* Queue.put blocks while the queue holds maxsize items.
JobQueueFullNever == FALSE
JobQueueFull == Len(job_queue) >= JobQueueMax
ProgressQueueFull == Len(progress_queue) >= ProgressQueueMax

\* Queue.get removes the item it returns.
GetKeeps(q) == q
Get(q) == Tail(q)

\* np.sum(len(sentence) for sentence in sentences) and _do_train_job's tally.
JobRaw(job) == SumSeq([i \in 1..Len(job.sents) |-> Stream[job.sents[i]].raw])
JobTrained(job) == SumSeq([i \in 1..Len(job.sents) |-> Stream[job.sents[i]].voc])

\* next_lr = max(end_lr, start_lr - (start_lr - end_lr) * pushed / total_words)
DecayedLrGrowing(pushed) == Max(end_lr, start_lr + (lr - min_lr) * pushed)
DecayedLr(pushed) == Max(end_lr, start_lr - (lr - min_lr) * pushed)

\* pushed_words += len(job_batch)
PushedAfter(pushed, batch) == pushed + Len(batch)

(***************************************************************************)
(* Initial states.                                                         *)
(***************************************************************************)
NegIdle ==
    /\ vocabSize = 0
    /\ negatives = <<>>
    /\ negpos = 1
    /\ gpc = [w \in WorkerIds |-> "idle"]
    /\ gtarget = [w \in WorkerIds |-> 0]
    /\ gnegative = [w \in WorkerIds |-> 0]
    /\ gloaded = [w \in WorkerIds |-> 0]
    /\ gstart = [w \in WorkerIds |-> 0]
    /\ ginterfered = [w \in WorkerIds |-> FALSE]

UnbuiltConfig ==
    /\ dictBuilt = FALSE
    /\ workers = 1 /\ queue_factor = 1 /\ epochs = 1
    /\ batch_words = 1 /\ corpus = <<[raw |-> 1, voc |-> 1]>>

TrainConfig ==
    /\ dictBuilt \in BOOLEAN
    /\ workers \in 1..MaxWorkers
    /\ queue_factor \in 1..DefaultQueueFactor
    /\ epochs \in 1..MaxStreamLen
    /\ batch_words \in 1..MaxBatchWords
    /\ corpus \in Corpora
    /\ epochs * Len(corpus) <= MaxStreamLen
    \* a built dictionary retains at least one word of the corpus
    /\ dictBuilt => SumSeq(VocLens(corpus)) >= 1
    /\ ~dictBuilt => UnbuiltConfig

TrainIdle ==
    /\ pcMain = "idle"
    /\ exc = "none"
    /\ job_queue = <<>>
    /\ progress_queue = <<>>
    /\ unfinished_worker_count = 0
    /\ job_tally = 0
    /\ trained_word_count = 0
    /\ raw_word_count = 0
    /\ train_count = 0
    /\ pcProd = "idle"
    /\ sent_idx = 0
    /\ job_batch = <<>>
    /\ batch_size = 0
    /\ pushed_words = 0
    /\ next_lr = 0
    /\ job_no = 0
    /\ sentinels = 0
    /\ pcW = [w \in WorkerIds |-> "idle"]
    /\ curJob = [w \in WorkerIds |-> NoneJob]
    /\ dispatched = <<>>
    /\ takenCount = <<>>
    /\ reportCount = <<>>
    /\ consumedCount = <<>>

\* No ModelDictionary has been constructed.
NoDict == [words |-> <<>>, word2int |-> <<>>, size |-> 0, ntokens |-> 0]
NoOp == [op |-> "none", word |-> <<>>, t |-> 0]
NoFind == [word |-> <<>>, slot |-> 0, valid |-> FALSE]

DictIdle ==
    /\ max_vocab_size = 0
    /\ words = <<>>
    /\ word2int = <<>>
    /\ dict_ntokens = 0
    /\ pdiscard = <<>>
    /\ subwords = <<>>
    /\ dpc = "ready"

FindIdle ==
    /\ fpc = "idle"
    /\ fword = <<>>
    /\ fh = 0
    /\ fwrapped = FALSE
    /\ fprev = NoFind
    /\ lastOp = NoOp
    /\ prevDict = NoDict

ReadIdle ==
    /\ pcBuild = "idle"
    /\ buildExc = "none"
    /\ read_idx = 0
    /\ min_threshold = 0
    /\ applied = <<>>
    /\ wi_rows = -1
    /\ wo_rows = -1

NoRead == sentence = <<>> /\ min_count = 0 /\ minn = 0 /\ maxn = 0

NgramIdle ==
    /\ ng_context = <<>>
    /\ ng_n = 0
    /\ ng_k = 0
    /\ ng_pc = "idle"
    /\ ng_fn = "none"
    /\ ng_discard = <<>>
    /\ ng_num_discarded = 0
    /\ ng_line = <<>>

JobIdle ==
    /\ jpc = [w \in WorkerIds |-> "idle"]
    /\ jwords = [w \in WorkerIds |-> <<>>]
    /\ ji = [w \in WorkerIds |-> 0]
    /\ jcontext = [w \in WorkerIds |-> <<>>]

HashIdle ==
    /\ hpc = "idle"
    /\ hword = <<>>
    /\ hidx = 0
    /\ hval = <<>>

\* self.hidden and self.grad do not exist before the first update.
NoVec == [alloc |-> 0, adds |-> {}]

UpdIdle ==
    /\ upc = [w \in WorkerIds |-> "idle"]
    /\ ulen = [w \in WorkerIds |-> 0]
    /\ utarget = [w \in WorkerIds |-> 0]
    /\ uk = [w \in WorkerIds |-> 0]
    /\ hidden = NoVec
    /\ grad = NoVec
    /\ uhidden = [w \in WorkerIds |-> NoVec]
    /\ ugrad = [w \in WorkerIds |-> NoVec]

MoreIdle == HashIdle /\ UpdIdle

AuxIdle == NgramIdle /\ JobIdle /\ MoreIdle

RestIdle == DictIdle /\ FindIdle /\ ReadIdle /\ NoRead /\ AuxIdle

TrainInit == TrainConfig /\ TrainIdle /\ NegIdle /\ RestIdle

(***************************************************************************)
(* train(): entry.                                                         *)
(***************************************************************************)
\* Lines 615-724.  logger.info(..., self.dict.size, ...) is evaluated before
\* `if not self.dict`; with self.dict None it raises AttributeError.  A
\* ModelDictionary instance is always truthy, so the RuntimeError is not raised.
TrainEnter ==
    /\ pcMain = "idle"
    /\ IF ~dictBuilt
       THEN /\ pcMain' = "raised"
            /\ exc' = "AttributeError"
            /\ UNCHANGED <<pcProd, pcW, unfinished_worker_count, next_lr>>
       ELSE /\ pcMain' = "loop"
            /\ exc' = "none"
            /\ pcProd' = "loop"
            /\ next_lr' = start_lr
            /\ pcW' = [w \in WorkerIds |-> IF w <= workers THEN "get" ELSE "idle"]
            /\ unfinished_worker_count' = workers
    /\ UNCHANGED <<dictBuilt, workers, queue_factor, epochs, batch_words, corpus,
                   job_queue, progress_queue, job_tally, trained_word_count,
                   raw_word_count, train_count, sent_idx, job_batch, batch_size,
                   pushed_words, job_no, sentinels, curJob,
                   dispatched, takenCount, reportCount, consumedCount>>
    /\ UNCHANGED <<negVars, restVars>>

(***************************************************************************)
(* job_producer.                                                           *)
(***************************************************************************)
Fits == batch_size + Stream[sent_idx + 1].raw <= batch_words

Enqueue(job) ==
    /\ job_queue' = Append(job_queue, job)
    /\ dispatched' = Append(dispatched, job)
    /\ takenCount' = Append(takenCount, 0)
    /\ reportCount' = Append(reportCount, 0)
    /\ consumedCount' = Append(consumedCount, 0)

\* Lines 664-671: the sentence fits into the current batch.
ProducerFit ==
    /\ pcProd = "loop"
    /\ sent_idx < Len(Stream)
    /\ Fits
    /\ job_batch' = Append(job_batch, sent_idx + 1)
    /\ batch_size' = batch_size + Stream[sent_idx + 1].raw
    /\ sent_idx' = sent_idx + 1
    /\ UNCHANGED <<dictBuilt, workers, queue_factor, epochs, batch_words, corpus,
                   pcMain, exc, job_queue, progress_queue, unfinished_worker_count,
                   job_tally, trained_word_count, raw_word_count, train_count,
                   pcProd, pushed_words, next_lr, job_no, sentinels, pcW, curJob,
                   dispatched, takenCount, reportCount, consumedCount>>
    /\ UNCHANGED <<negVars, restVars>>

\* Lines 672-689: the sentence does not fit; the batch is put (blocking while
\* the queue is full), the rate is recomputed, a new batch is started.  With
\* epochs = 1 total_words is unbound and line 684 raises NameError, which ends
\* the producer thread.
ProducerSubmit ==
    /\ pcProd = "loop"
    /\ sent_idx < Len(Stream)
    /\ ~Fits
    /\ ~JobQueueFull
    /\ Enqueue([id |-> job_no + 1, sents |-> job_batch, lr |-> next_lr])
    /\ job_no' = job_no + 1
    /\ IF end_lr < next_lr
       THEN /\ pushed_words' = PushedAfter(pushed_words, job_batch)
            /\ IF total_words_bound
               THEN /\ next_lr' = DecayedLr(pushed_words')
                    /\ job_batch' = <<sent_idx + 1>>
                    /\ batch_size' = Stream[sent_idx + 1].raw
                    /\ sent_idx' = sent_idx + 1
                    /\ pcProd' = "loop"
               ELSE /\ pcProd' = "raised"
                    /\ UNCHANGED <<next_lr, job_batch, batch_size, sent_idx>>
       ELSE /\ job_batch' = <<sent_idx + 1>>
            /\ batch_size' = Stream[sent_idx + 1].raw
            /\ sent_idx' = sent_idx + 1
            /\ UNCHANGED <<pushed_words, next_lr, pcProd>>
    /\ UNCHANGED <<dictBuilt, workers, queue_factor, epochs, batch_words, corpus,
                   pcMain, exc, progress_queue, unfinished_worker_count,
                   job_tally, trained_word_count, raw_word_count, train_count,
                   sentinels, pcW, curJob>>
    /\ UNCHANGED <<negVars, restVars>>

\* Lines 691-698: the stream is exhausted; the last batch is put.
ProducerLast ==
    /\ pcProd = "loop"
    /\ sent_idx = Len(Stream)
    /\ IF job_batch # <<>>
       THEN /\ ~JobQueueFull
            /\ Enqueue([id |-> job_no + 1, sents |-> job_batch, lr |-> next_lr])
            /\ job_no' = job_no + 1
       ELSE UNCHANGED <<job_queue, job_no, dispatched, takenCount, reportCount,
                        consumedCount>>
    /\ pcProd' = "sentinels"
    /\ UNCHANGED <<dictBuilt, workers, queue_factor, epochs, batch_words, corpus,
                   pcMain, exc, progress_queue, unfinished_worker_count,
                   job_tally, trained_word_count, raw_word_count, train_count,
                   sent_idx, job_batch, batch_size, pushed_words, next_lr,
                   sentinels, pcW, curJob>>
    /\ UNCHANGED <<negVars, restVars>>

\* Lines 706-709: one None per worker, each put blocking while the queue is full.
ProducerSentinel ==
    /\ pcProd = "sentinels"
    /\ ~JobQueueFull
    /\ job_queue' = Append(job_queue, NoneJob)
    /\ sentinels' = sentinels + 1
    /\ pcProd' = IF sentinels + 1 = workers THEN "done" ELSE "sentinels"
    /\ UNCHANGED <<dictBuilt, workers, queue_factor, epochs, batch_words, corpus,
                   pcMain, exc, progress_queue, unfinished_worker_count,
                   job_tally, trained_word_count, raw_word_count, train_count,
                   sent_idx, job_batch, batch_size, pushed_words, next_lr,
                   job_no, pcW, curJob,
                   dispatched, takenCount, reportCount, consumedCount>>
    /\ UNCHANGED <<negVars, restVars>>

Producer == ProducerFit \/ ProducerSubmit \/ ProducerLast \/ ProducerSentinel

(***************************************************************************)
(* worker_loop.                                                            *)
(***************************************************************************)
\* Line 644-648: job_queue.get() blocks while the queue is empty.
WorkerGet(w) ==
    /\ pcW[w] = "get"
    /\ job_queue # <<>>
    /\ job_queue' = Get(job_queue)
    /\ IF Head(job_queue) = NoneJob
       THEN /\ pcW' = [pcW EXCEPT ![w] = "marker"]
            /\ UNCHANGED <<curJob, takenCount>>
       ELSE /\ pcW' = [pcW EXCEPT ![w] = "report"]
            /\ curJob' = [curJob EXCEPT ![w] = Head(job_queue)]
            /\ takenCount' = [takenCount EXCEPT ![Head(job_queue).id] = @ + 1]
    /\ UNCHANGED <<dictBuilt, workers, queue_factor, epochs, batch_words, corpus,
                   pcMain, exc, progress_queue, unfinished_worker_count,
                   job_tally, trained_word_count, raw_word_count, train_count,
                   pcProd, sent_idx, job_batch, batch_size, pushed_words, next_lr,
                   job_no, sentinels, dispatched, reportCount, consumedCount>>
    /\ UNCHANGED <<negVars, restVars>>

\* Lines 649-651: _do_train_job, then progress_queue.put (blocking while full).
WorkerReport(w) ==
    /\ pcW[w] = "report"
    /\ ~ProgressQueueFull
    /\ progress_queue' = Append(progress_queue,
           [job |-> curJob[w].id, raw |-> JobRaw(curJob[w]),
            trained |-> JobTrained(curJob[w])])
    /\ reportCount' = [reportCount EXCEPT ![curJob[w].id] = @ + 1]
    /\ pcW' = [pcW EXCEPT ![w] = "get"]
    /\ curJob' = [curJob EXCEPT ![w] = NoneJob]
    /\ UNCHANGED <<dictBuilt, workers, queue_factor, epochs, batch_words, corpus,
                   pcMain, exc, job_queue, unfinished_worker_count,
                   job_tally, trained_word_count, raw_word_count, train_count,
                   pcProd, sent_idx, job_batch, batch_size, pushed_words, next_lr,
                   job_no, sentinels, dispatched, takenCount, consumedCount>>
    /\ UNCHANGED <<negVars, restVars>>

\* Lines 645-647: on a sentinel, progress_queue.put(None), then the thread ends.
WorkerMarker(w) ==
    /\ pcW[w] = "marker"
    /\ ~ProgressQueueFull
    /\ progress_queue' = Append(progress_queue, NoneReport)
    /\ pcW' = [pcW EXCEPT ![w] = "exited"]
    /\ UNCHANGED <<dictBuilt, workers, queue_factor, epochs, batch_words, corpus,
                   pcMain, exc, job_queue, unfinished_worker_count,
                   job_tally, trained_word_count, raw_word_count, train_count,
                   pcProd, sent_idx, job_batch, batch_size, pushed_words, next_lr,
                   job_no, sentinels, curJob,
                   dispatched, takenCount, reportCount, consumedCount>>
    /\ UNCHANGED <<negVars, restVars>>

Worker(w) == WorkerGet(w) \/ WorkerReport(w) \/ WorkerMarker(w)

(***************************************************************************)
(* train(): the reporting loop of the calling thread.                      *)
(***************************************************************************)
\* Lines 726-748.  progress_queue.get() blocks while the queue is empty.  `due`
\* is `elapsed >= next_report`, which depends on the clock; the log line
\* evaluates total_words, unbound when epochs = 1.
MainGet ==
    /\ pcMain = "loop"
    /\ unfinished_worker_count > 0
    /\ progress_queue # <<>>
    /\ progress_queue' = Get(progress_queue)
    /\ IF Head(progress_queue) = NoneReport
       THEN /\ unfinished_worker_count' = unfinished_worker_count - 1
            /\ UNCHANGED <<pcMain, exc, job_tally, trained_word_count,
                           raw_word_count, consumedCount>>
       ELSE /\ job_tally' = job_tally + 1
            /\ trained_word_count' = trained_word_count + Head(progress_queue).trained
            /\ raw_word_count' = raw_word_count + Head(progress_queue).raw
            /\ consumedCount' = [consumedCount EXCEPT ![Head(progress_queue).job] = @ + 1]
            /\ \E due \in BOOLEAN :
                  IF due /\ ~total_words_bound
                  THEN pcMain' = "raised" /\ exc' = "UnboundLocalError"
                  ELSE UNCHANGED <<pcMain, exc>>
            /\ UNCHANGED unfinished_worker_count
    /\ UNCHANGED <<dictBuilt, workers, queue_factor, epochs, batch_words, corpus,
                   job_queue, train_count,
                   pcProd, sent_idx, job_batch, batch_size, pushed_words, next_lr,
                   job_no, sentinels, pcW, curJob,
                   dispatched, takenCount, reportCount>>
    /\ UNCHANGED <<negVars, restVars>>

\* Lines 750-765: after the loop.  `if total_words != raw_word_count` evaluates
\* total_words, unbound when epochs = 1.
MainFinish ==
    /\ pcMain = "loop"
    /\ unfinished_worker_count = 0
    /\ IF total_words_bound
       THEN /\ train_count' = train_count + 1
            /\ pcMain' = "returned"
            /\ UNCHANGED exc
       ELSE /\ pcMain' = "raised"
            /\ exc' = "UnboundLocalError"
            /\ UNCHANGED train_count
    /\ UNCHANGED <<dictBuilt, workers, queue_factor, epochs, batch_words, corpus,
                   job_queue, progress_queue, unfinished_worker_count,
                   job_tally, trained_word_count, raw_word_count,
                   pcProd, sent_idx, job_batch, batch_size, pushed_words, next_lr,
                   job_no, sentinels, pcW, curJob,
                   dispatched, takenCount, reportCount, consumedCount>>
    /\ UNCHANGED <<negVars, restVars>>

Main == TrainEnter \/ MainGet \/ MainFinish

TrainNext ==
    \/ TrainEnter
    \/ ProducerFit
    \/ ProducerSubmit
    \/ ProducerLast
    \/ ProducerSentinel
    \/ \E w \in WorkerIds : WorkerGet(w)
    \/ \E w \in WorkerIds : WorkerReport(w)
    \/ \E w \in WorkerIds : WorkerMarker(w)
    \/ MainGet
    \/ MainFinish

TrainSpec == TrainInit /\ [][TrainNext]_vars

\* Every started thread is scheduled as long as it is not blocked on a queue.
TrainFairSpec ==
    /\ TrainSpec
    /\ WF_vars(Main)
    /\ WF_vars(Producer)
    /\ \A w \in WorkerIds : WF_vars(Worker(w))

(***************************************************************************)
(* build_vocab: the negative table.                                        *)
(***************************************************************************)
\* The word counts of the models' vocabularies are perfect squares, so that
\* counts[i] ** 0.5 is exact: a vocabulary is given by the roots of its counts.
Vocabularies == UNION {[1..n -> 1..MaxRoot] : n \in 1..MaxVocab}

\* init_table_negatives: int(c * self.negative_table_size / z) + 1 copies of i.
Copies(roots, i) == (roots[i] * negative_table_size) \div SumSeq(roots) + 1

TableLen(roots) == SumSeq([i \in 1..Len(roots) |-> Copies(roots, i)])

\* self.random.shuffle(self.negatives): any order of the copies.  Word ids are
\* 0-based: the word at position i of the vocabulary has id i - 1.
ShuffledTables(roots) ==
    {t \in [1..TableLen(roots) -> 0..(Len(roots) - 1)] :
        \A i \in 1..Len(roots) :
            Cardinality({k \in 1..TableLen(roots) : t[k] = i - 1}) = Copies(roots, i)}

\* Lines 603-612, on a freshly constructed model (self.dict is None, the
\* table is empty): the call that precedes training.
BuildVocab ==
    /\ ~dictBuilt
    /\ negatives = <<>>
    /\ \E roots \in Vocabularies :
          /\ vocabSize' = Len(roots)
          /\ negatives' \in ShuffledTables(roots)
    /\ dictBuilt' = TRUE
    /\ UNCHANGED <<workers, queue_factor, epochs, batch_words, corpus,
                   pcMain, exc, job_queue, progress_queue, unfinished_worker_count,
                   job_tally, trained_word_count, raw_word_count, train_count,
                   pcProd, sent_idx, job_batch, batch_size, pushed_words, next_lr,
                   job_no, sentinels, pcW, curJob,
                   dispatched, takenCount, reportCount, consumedCount>>
    /\ UNCHANGED <<negpos, gpc, gtarget, gnegative, gloaded, gstart, ginterfered>>
    /\ UNCHANGED restVars

(***************************************************************************)
(* get_negative, called by the workers on the shared cursor without a      *)
(* lock.  A thread switch can fall between any two reads or writes of      *)
(* self.negpos: line 547 reads it, line 548 reads it again and then        *)
(* writes it.                                                              *)
(***************************************************************************)
\* (self.negpos + 1) % len(self.negatives)
NextPosNoWrap(p, n) == p + 1
NextPos(p, n) == (p + 1) % n

\* `if target != negative: break`
DiffersAlways(target, negative) == TRUE
Differs(target, negative) == target # negative

\* Line 547, first pass: entry of the call with its first read of the table.
GNCall(w) ==
    /\ gpc[w] = "idle"
    /\ negatives # <<>>
    /\ \E target \in 0..(vocabSize - 1) :
          gtarget' = [gtarget EXCEPT ![w] = target]
    /\ gnegative' = [gnegative EXCEPT ![w] = negatives[negpos + 1]]
    /\ gstart' = [gstart EXCEPT ![w] = negpos]
    /\ ginterfered' = [ginterfered EXCEPT ![w] = FALSE]
    /\ gpc' = [gpc EXCEPT ![w] = "load"]
    /\ UNCHANGED <<vocabSize, negatives, negpos, gloaded>>
    /\ UNCHANGED <<trainVars, restVars>>

\* Line 547, later passes: negative = self.negatives[self.negpos]
GNRead(w) ==
    /\ gpc[w] = "read"
    /\ gnegative' = [gnegative EXCEPT ![w] = negatives[negpos + 1]]
    /\ gpc' = [gpc EXCEPT ![w] = "load"]
    /\ UNCHANGED <<vocabSize, negatives, negpos, gtarget, gloaded, gstart,
                   ginterfered>>
    /\ UNCHANGED <<trainVars, restVars>>

\* Line 548, right-hand side: the read of self.negpos.
GNLoad(w) ==
    /\ gpc[w] = "load"
    /\ gloaded' = [gloaded EXCEPT ![w] = negpos]
    /\ gpc' = [gpc EXCEPT ![w] = "store"]
    /\ UNCHANGED <<vocabSize, negatives, negpos, gtarget, gnegative, gstart,
                   ginterfered>>
    /\ UNCHANGED <<trainVars, restVars>>

\* Line 548, the write of self.negpos, and lines 549-550.  The loaded value
\* is a temporary; `negative` is dead when the loop goes round.
GNStore(w) ==
    /\ gpc[w] = "store"
    /\ negpos' = NextPos(gloaded[w], Len(negatives))
    /\ gloaded' = [gloaded EXCEPT ![w] = 0]
    /\ IF Differs(gtarget[w], gnegative[w])
       THEN /\ gpc' = [gpc EXCEPT ![w] = "ret"]
            /\ UNCHANGED gnegative
       ELSE /\ gpc' = [gpc EXCEPT ![w] = "read"]
            /\ gnegative' = [gnegative EXCEPT ![w] = 0]
    /\ ginterfered' = [v \in WorkerIds |->
                          IF v # w /\ gpc[v] \in {"read", "load", "store"}
                          THEN TRUE ELSE ginterfered[v]]
    /\ UNCHANGED <<vocabSize, negatives, gtarget, gstart>>
    /\ UNCHANGED <<trainVars, restVars>>

\* Line 551: return negative
GNReturn(w) ==
    /\ gpc[w] = "ret"
    /\ gpc' = [gpc EXCEPT ![w] = "idle"]
    \* the frame of the call is gone
    /\ gtarget' = [gtarget EXCEPT ![w] = 0]
    /\ gnegative' = [gnegative EXCEPT ![w] = 0]
    /\ gloaded' = [gloaded EXCEPT ![w] = 0]
    /\ gstart' = [gstart EXCEPT ![w] = 0]
    /\ ginterfered' = [ginterfered EXCEPT ![w] = FALSE]
    /\ UNCHANGED <<vocabSize, negatives, negpos>>
    /\ UNCHANGED <<trainVars, restVars>>

NegInit == UnbuiltConfig /\ TrainIdle /\ NegIdle /\ RestIdle

NegNext ==
    \/ BuildVocab
    \/ \E w \in WorkerIds : GNCall(w)
    \/ \E w \in WorkerIds : GNRead(w)
    \/ \E w \in WorkerIds : GNLoad(w)
    \/ \E w \in WorkerIds : GNStore(w)
    \/ \E w \in WorkerIds : GNReturn(w)

NegSpec == NegInit /\ [][NegNext]_vars

(***************************************************************************)
(* Properties of the train call.                                           *)
(***************************************************************************)
JobIds == 1..Len(dispatched)
Started == dictBuilt /\ pcMain # "idle"
StartedWorkers == 1..workers
ProducerEnded == pcProd \in {"done", "raised"}
TrainEnded == pcMain \in {"returned", "raised"}
\* the `while unfinished_worker_count > 0` loop has been left
MainLoopExited == Started /\ unfinished_worker_count = 0
DataReports(q) == SelectSeq(q, LAMBDA r : r # NoneReport)
JobsIn(q) == SelectSeq(q, LAMBDA j : j # NoneJob)

TrainTerminated ==
    /\ pcMain = "returned"
    /\ pcProd = "done"
    /\ \A w \in StartedWorkers : pcW[w] = "exited"
    /\ unfinished_worker_count = 0

\* C1: under fair scheduling of the producer, the workers and the main loop,
\* every train call on a built vocabulary terminates: the producer finishes,
\* every worker exits, unfinished_worker_count reaches 0 and train returns.
C1_TrainTerminates == [](pcMain = "loop" => <>TrainTerminated)

\* C2: every enqueued job is dequeued by at most one worker and reported at
\* most once, and once the main loop has exited every enqueued job was
\* dequeued exactly once, reported exactly once and its report read exactly
\* once: job_tally equals the number of jobs dispatched and no data report is
\* left in the progress queue.
C2_OneReportPerJob ==
    /\ \A j \in JobIds : /\ takenCount[j] <= 1
                         /\ reportCount[j] <= takenCount[j]
                         /\ consumedCount[j] <= reportCount[j]
    /\ MainLoopExited =>
          /\ job_tally = job_no
          /\ job_no = Len(dispatched)
          /\ \A j \in JobIds : /\ takenCount[j] = 1
                               /\ reportCount[j] = 1
                               /\ consumedCount[j] = 1
          /\ DataReports(progress_queue) = <<>>
          /\ JobsIn(job_queue) = <<>>

\* C2 witness: two workers have shared three or more jobs and the loop is over.
C2_Witness ==
    /\ MainLoopExited
    /\ workers = 2
    /\ Len(dispatched) >= 3

\* C3: the producer enqueues exactly `workers` sentinels, all after the last
\* job; each worker dequeues exactly one sentinel and pushes exactly one
\* completion marker, after all of its reports.
C3_SentinelProtocol ==
    /\ sentinels <= workers
    /\ sentinels > 0 => sent_idx = Len(Stream) /\ job_batch # <<>>
    /\ ProducerEnded => sentinels = workers
    /\ \A w \in StartedWorkers : pcW[w] \in {"marker", "exited"} => curJob[w] = NoneJob
    /\ Cardinality({w \in StartedWorkers : pcW[w] \in {"marker", "exited"}})
          + Len(SelectSeq(job_queue, LAMBDA j : j = NoneJob)) = sentinels
    /\ (ProducerEnded /\ job_queue = <<>>) =>
          \A w \in StartedWorkers : pcW[w] \in {"report", "marker", "exited"}

\* C4: the job queue never holds more than queue_factor * workers items and
\* the progress queue never more than (queue_factor + 1) * workers; a thread
\* that puts on a full queue, or gets from an empty one, cannot take its step.
C4_QueueBounds ==
    /\ Len(job_queue) <= queue_factor * workers
    /\ Len(progress_queue) <= (queue_factor + 1) * workers
    /\ Len(job_queue) = queue_factor * workers =>
          ~ENABLED (ProducerSubmit \/ ProducerLast \/ ProducerSentinel)
    /\ Len(progress_queue) = (queue_factor + 1) * workers =>
          \A w \in WorkerIds : ~ENABLED (WorkerReport(w) \/ WorkerMarker(w))
    /\ job_queue = <<>> => \A w \in WorkerIds : ~ENABLED WorkerGet(w)
    /\ progress_queue = <<>> => ~ENABLED MainGet

\* C4 witness: both queues are full, the producer waits to put and a worker
\* waits to put.
C4_Witness ==
    /\ Len(job_queue) = queue_factor * workers
    /\ pcProd = "sentinels"
    /\ Len(progress_queue) = (queue_factor + 1) * workers
    /\ \E w \in StartedWorkers : pcW[w] = "report"

\* C5: the jobs in enqueue order, concatenated, are the input stream; a job
\* of more than one sentence has at most batch_words words; a batch is closed
\* only when the next sentence would not fit; the last batch is enqueued.
C5_BatchesPartitionStream ==
    /\ \A j \in JobIds :
          Len(dispatched[j].sents) > 1 => JobRaw(dispatched[j]) <= batch_words
    /\ \A j \in JobIds :
          LET last == Len(Flatten([k \in 1..j |-> dispatched[k].sents]))
          IN  last < Len(Stream) =>
                 JobRaw(dispatched[j]) + Stream[last + 1].raw > batch_words
    /\ ProducerEnded =>
          Flatten([j \in JobIds |-> dispatched[j].sents])
             = [i \in 1..Len(Stream) |-> i]

\* C6: with workers = 1, epochs = 1 and batch_words larger than the corpus,
\* train dispatches one job, reads one progress report and returns a trained
\* word count that is at most ntokens.
C6_SingleJobScenario ==
    (/\ dictBuilt /\ workers = 1 /\ epochs = 1 /\ batch_words > ntokens
     /\ TrainEnded)
    => /\ pcMain = "returned"
       /\ job_no = 1
       /\ job_tally = 1
       /\ trained_word_count <= ntokens

\* C7: train on a model without a vocabulary raises RuntimeError, with no
\* thread started and no state changed.
C7_UnbuiltRaisesRuntimeError ==
    (~dictBuilt /\ pcMain = "raised")
    => /\ exc = "RuntimeError"
       /\ pcProd = "idle"
       /\ \A w \in WorkerIds : pcW[w] = "idle"
       /\ train_count = 0

\* C8: the rate of each dispatched job is
\* max(min_lr, start_lr - (start_lr - min_lr) * pushed / total_words), pushed
\* being the sum of the word counts of the jobs enqueued before it.
WordsBefore(j) == SumSeq([k \in 1..(j - 1) |-> JobRaw(dispatched[k])])
C8_RateFollowsPushedWords ==
    \A j \in JobIds :
        dispatched[j].lr = Max(end_lr, start_lr - (lr - min_lr) * WordsBefore(j))

(***************************************************************************)
(* Properties of get_negative and of the cursor.                           *)
(***************************************************************************)
TableIds == 0..(Len(negatives) - 1)
At(p) == negatives[p + 1]

\* the offset from `start` of the first table entry, cyclically, that differs
\* from `target` (the table length if there is none)
FirstDiffOffset(start, target) ==
    LET offs == {k \in TableIds : At((start + k) % Len(negatives)) # target}
    IN  IF offs = {} THEN Len(negatives)
        ELSE CHOOSE k \in offs : \A m \in offs : k <= m

FirstDiff(start, target) == At((start + FirstDiffOffset(start, target)) % Len(negatives))

Returned(w) == gpc[w] = "ret"

\* C9 as stated: every call, also one interleaved with other workers' calls,
\* returns an id that differs from target and is the first such id at or
\* after the cursor position the call started at.
C9_ReturnsFirstDifferent ==
    \A w \in WorkerIds :
        Returned(w) => /\ gnegative[w] # gtarget[w]
                       /\ gnegative[w] = FirstDiff(gstart[w], gtarget[w])

\* C9 as amended: in every interleaving a call returns an id that differs
\* from target; a call during which no other worker wrote the cursor advances
\* the cursor by one per read, skips only entries equal to target and returns
\* the first id at or after its starting position that differs from target.
C9_NeverTarget ==
    \A w \in WorkerIds :
        /\ Returned(w) => gnegative[w] # gtarget[w]
        /\ (Returned(w) /\ ~ginterfered[w]) =>
              gnegative[w] = FirstDiff(gstart[w], gtarget[w])
        /\ (gpc[w] = "read" /\ ~ginterfered[w]) =>
              \E k \in 1..Len(negatives) :
                  /\ negpos = (gstart[w] + k) % Len(negatives)
                  /\ \A i \in 0..(k - 1) :
                        At((gstart[w] + i) % Len(negatives)) = gtarget[w]

\* C9 witness: one call was overtaken by another worker's write and returned,
\* another ran undisturbed, skipped at least one entry equal to its target and
\* returned.
C9_Witness ==
    \E w, v \in WorkerIds :
        /\ w # v
        /\ Returned(w) /\ ginterfered[w]
        /\ Returned(v) /\ ~ginterfered[v]
        /\ At(gstart[v]) = gtarget[v]

\* C10 as stated: negpos is in [0, len(negatives)) in every reachable state,
\* from construction on.
C10_CursorInRangeAlways == negpos \in TableIds

\* C10 as amended: from the return of build_vocab on, that is whenever the
\* table is not empty, negpos is in [0, len(negatives)).
C10_CursorInRange == negatives # <<>> => negpos \in TableIds

\* C10 witness: a call that started inside the table and was not disturbed has
\* moved the cursor past the end of the table, which wrapped it to 0.
C10_Witness ==
    /\ negatives # <<>>
    /\ negpos = 0
    /\ \E w \in WorkerIds : /\ gpc[w] \in {"read", "ret"}
                            /\ ~ginterfered[w]
                            /\ gstart[w] > 0

(***************************************************************************)
(* ModelDictionary: hash_, find, add, threshold.                           *)
(***************************************************************************)
\* Bounds of the dictionary models.
CapacityBits == 2
MaxAdds == 4
MaxThreshold == 2

\* A word is the sequence of its character codes: "a", "b", "c", "ab", "abc".
WordList == << <<97>>, <<98>>, <<99>>, <<97, 98>>, <<97, 98, 99>> >>
Words == {WordList[i] : i \in 1..Len(WordList)}

\* max_vocab_size (30000000 by default) is scaled down to a power of two.
Capacities == {2^b : b \in 1..CapacityBits}

\* hash_ is FNV-1a on Python integers, which do not overflow.  Every use of
\* the hash reduces it modulo max_vocab_size or bucket, powers of two in the
\* model, so its low 15 bits decide: 2166136261 % 32768 = 7621 and
\* 16777619 % 32768 = 403, and xor and product commute with % 32768.
HashModulus == 32768
FnvOffsetLow == 7621
FnvPrimeLow == 403

RECURSIVE Xor(_, _)
Xor(a, b) ==
    IF a = 0 THEN b
    ELSE IF b = 0 THEN a
    ELSE 2 * Xor(a \div 2, b \div 2) + ((a + b) % 2)

RECURSIVE HashFrom(_, _)
HashFrom(h, word) ==
    IF word = <<>> THEN h
    ELSE HashFrom((Xor(h, Head(word)) * FnvPrimeLow) % HashModulus, Tail(word))

hash_(word) == HashFrom(FnvOffsetLow, word)

\* The dictionary as one value, for the functions below.
CurDict == [words |-> words, word2int |-> word2int, size |-> vocabSize,
            ntokens |-> dict_ntokens]

SetDict(d) ==
    /\ words' = d.words
    /\ word2int' = d.word2int
    /\ vocabSize' = d.size
    /\ dict_ntokens' = d.ntokens

EmptyTable(n) == [h \in 1..n |-> -1]

\* ModelDictionary.__init__
NewDict(n) == [words |-> <<>>, word2int |-> EmptyTable(n), size |-> 0, ntokens |-> 0]

Capacity(d) == Len(d.word2int)
SlotId(d, h) == d.word2int[h + 1]
EntryAt(d, id) == d.words[id + 1]

\* The loop condition of find:
\* self.word2int[h] != -1 and self.words[self.word2int[h]].word != word
OccupiedNever(d, h, word) == FALSE
Occupied(d, h, word) == SlotId(d, h) # -1 /\ EntryAt(d, SlotId(d, h)).word # word

\* h = (h + 1) % self.max_vocab_size
NextSlot(h, n) == (h + 1) % n

\* The loop of find ends iff a slot on its way is empty or holds the word;
\* its way goes round the whole table.
CanFind(d, word) ==
    \E h \in 0..(Capacity(d) - 1) : ~Occupied(d, h, word)

RECURSIVE Probe(_, _, _)
Probe(d, h, word) ==
    IF Occupied(d, h, word) THEN Probe(d, NextSlot(h, Capacity(d)), word) ELSE h

find(d, word) == Probe(d, hash_(word) % Capacity(d), word)

\* Entry(word=word, count=1)
NewEntryZero(word) == [word |-> word, count |-> 0]
NewEntry(word) == [word |-> word, count |-> 1]

add(d, word) ==
    LET h == find(d, word)
    IN  IF SlotId(d, h) = -1
        THEN [words |-> Append(d.words, NewEntry(word)),
              word2int |-> [d.word2int EXCEPT ![h + 1] = d.size],
              size |-> d.size + 1,
              ntokens |-> d.ntokens + 1]
        ELSE [words |-> [d.words EXCEPT ![SlotId(d, h) + 1].count = @ + 1],
              word2int |-> d.word2int,
              size |-> d.size,
              ntokens |-> d.ntokens + 1]

\* [entry for entry in self.words if entry.count > t]
SurvivesAtLeast(entry, t) == entry.count >= t
Survives(entry, t) == entry.count > t

\* The loop of threshold: the entries are bound to slots in order, self.size
\* counting the entries bound so far.
RECURSIVE Rebind(_)
Rebind(d) ==
    IF d.size = Len(d.words) THEN d
    ELSE Rebind([d EXCEPT !.word2int[find(d, d.words[d.size + 1].word) + 1] = d.size,
                          !.size = d.size + 1])

threshold(d, t) ==
    Rebind([words |-> SelectSeq(d.words, LAMBDA entry : Survives(entry, t)),
            word2int |-> EmptyTable(Capacity(d)),
            size |-> 0,
            ntokens |-> d.ntokens])

(***************************************************************************)
(* DictSpec: a ModelDictionary driven through add, threshold and find by   *)
(* one calling thread.  add and threshold are single steps; a find call    *)
(* is stepped through its loop.                                            *)
(***************************************************************************)
DictInit ==
    /\ UnbuiltConfig /\ TrainIdle /\ NegIdle
    /\ FindIdle /\ ReadIdle /\ NoRead /\ AuxIdle
    /\ max_vocab_size \in Capacities
    /\ words = <<>>
    /\ word2int = EmptyTable(max_vocab_size)
    /\ dict_ntokens = 0
    /\ pdiscard = <<>>
    /\ subwords = <<>>
    /\ dpc = "ready"

\* Lines 165-173.  On a full table that does not hold the word, find does
\* not return and neither does add.
Add(word) ==
    /\ dpc = "ready"
    /\ fpc = "idle"
    /\ dict_ntokens < MaxAdds
    /\ IF CanFind(CurDict, word)
       THEN /\ SetDict(add(CurDict, word))
            /\ lastOp' = [op |-> "add", word |-> word, t |-> 0]
            /\ prevDict' = CurDict
            /\ fprev' = NoFind
            /\ UNCHANGED dpc
       ELSE /\ dpc' = "hung"
            /\ UNCHANGED <<words, word2int, vocabSize, dict_ntokens, lastOp,
                           prevDict, fprev>>
    /\ UNCHANGED <<max_vocab_size, pdiscard, subwords, fpc, fword, fh, fwrapped>>
    /\ UNCHANGED <<negatives, negpos, gpc, gtarget, gnegative, gloaded, gstart,
                   ginterfered>>
    /\ UNCHANGED <<trainVars, readVars>>
    /\ UNCHANGED auxVars

\* Lines 218-224.
Threshold(t) ==
    /\ dpc = "ready"
    /\ fpc = "idle"
    /\ SetDict(threshold(CurDict, t))
    /\ lastOp' = [op |-> "threshold", word |-> <<>>, t |-> t]
    /\ prevDict' = CurDict
    /\ fprev' = NoFind
    /\ UNCHANGED <<max_vocab_size, pdiscard, subwords, dpc, fpc, fword, fh,
                   fwrapped>>
    /\ UNCHANGED <<negatives, negpos, gpc, gtarget, gnegative, gloaded, gstart,
                   ginterfered>>
    /\ UNCHANGED <<trainVars, readVars>>
    /\ UNCHANGED auxVars

\* Line 151: h = self.hash_(word) % self.max_vocab_size
FindCall(word) ==
    /\ dpc = "ready"
    /\ fpc = "idle"
    /\ fword' = word
    /\ fh' = hash_(word) % max_vocab_size
    /\ fwrapped' = FALSE
    /\ fpc' = "probe"
    /\ lastOp' = [op |-> "find", word |-> word, t |-> 0]
    /\ prevDict' = CurDict
    /\ UNCHANGED <<max_vocab_size, words, word2int, dict_ntokens, pdiscard,
                   subwords, dpc, fprev>>
    /\ UNCHANGED <<negVars, trainVars, readVars>>
    /\ UNCHANGED auxVars

\* Lines 152-153: one test of the loop condition, and one pass if it holds.
FindProbe ==
    /\ fpc = "probe"
    /\ IF Occupied(CurDict, fh, fword)
       THEN /\ fh' = NextSlot(fh, max_vocab_size)
            /\ fwrapped' = (fwrapped \/ fh' = hash_(fword) % max_vocab_size)
            /\ UNCHANGED fpc
       ELSE /\ fpc' = "done"
            /\ UNCHANGED <<fh, fwrapped>>
    /\ UNCHANGED <<max_vocab_size, words, word2int, dict_ntokens, pdiscard,
                   subwords, dpc, fword, fprev, lastOp, prevDict>>
    /\ UNCHANGED <<negVars, trainVars, readVars>>
    /\ UNCHANGED auxVars

\* Line 154: return h
FindReturn ==
    /\ fpc = "done"
    /\ fprev' = [word |-> fword, slot |-> fh, valid |-> TRUE]
    /\ fpc' = "idle"
    /\ fword' = <<>>
    /\ fh' = 0
    /\ fwrapped' = FALSE
    /\ UNCHANGED <<max_vocab_size, words, word2int, dict_ntokens, pdiscard,
                   subwords, dpc, lastOp, prevDict>>
    /\ UNCHANGED <<negVars, trainVars, readVars>>
    /\ UNCHANGED auxVars

DictNext ==
    \/ \E word \in Words : Add(word)
    \/ \E t \in 0..MaxThreshold : Threshold(t)
    \/ \E word \in Words : FindCall(word)
    \/ FindProbe
    \/ FindReturn

DictSpec == DictInit /\ [][DictNext]_vars

(***************************************************************************)
(* Properties of the dictionary under add, threshold and find.             *)
(***************************************************************************)
Slots == 0..(max_vocab_size - 1)
NonEmptySlots == {h \in Slots : word2int[h + 1] # -1}
FreeSlotExists == \E h \in Slots : word2int[h + 1] = -1
WordsOf(d) == {d.words[i].word : i \in 1..Len(d.words)}

\* the slot find(word) returns on the present dictionary holds id
BoundTo(word, id) == word2int[find(CurDict, word) + 1] = id

C13_FindTerminatesPure ==
    fpc \in {"probe", "done"} =>
        /\ CurDict = prevDict
        /\ FreeSlotExists => ~fwrapped
        /\ fpc = "done" =>
              /\ (fprev.valid /\ fprev.word = fword) => fh = fprev.slot
              /\ \/ word2int[fh + 1] = -1
                 \/ words[word2int[fh + 1] + 1].word = fword

\* C13 witness: the second of two consecutive find calls for a word that is
\* stored past the slot its hash names has returned that word's slot, while
\* the table has a free slot.
C13_Witness ==
    /\ fpc = "done"
    /\ FreeSlotExists
    /\ fprev.valid /\ fprev.word = fword
    /\ fh # hash_(fword) % max_vocab_size
    /\ word2int[fh + 1] # -1

\* C18: while a slot is free the dictionary is consistent: size = len(words),
\* exactly size slots are bound, each id of 0..size-1 is held by exactly one
\* slot, the retained words are pairwise distinct and find leads from every
\* retained word to its id; add(w) adds 1 to ntokens and either appends an
\* entry with count 1 (w absent) or adds 1 to the count of w only (w
\* present), all other entries and ids staying as they were.
C18_DictionaryConsistent ==
    /\ FreeSlotExists =>
          /\ vocabSize = Len(words)
          /\ Cardinality(NonEmptySlots) = vocabSize
          /\ \A h \in Slots : word2int[h + 1] \in -1..(vocabSize - 1)
          /\ \A id \in 0..(vocabSize - 1) :
                Cardinality({h \in Slots : word2int[h + 1] = id}) = 1
          /\ \A i, j \in 1..Len(words) : i # j => words[i].word # words[j].word
          /\ \A i \in 1..Len(words) : BoundTo(words[i].word, i - 1)
    /\ lastOp.op = "add" =>
          /\ dict_ntokens = prevDict.ntokens + 1
          /\ IF lastOp.word \in WordsOf(prevDict)
             THEN /\ vocabSize = prevDict.size
                  /\ word2int = prevDict.word2int
                  /\ Len(words) = Len(prevDict.words)
                  /\ \A i \in 1..Len(words) :
                        /\ words[i].word = prevDict.words[i].word
                        /\ words[i].count = prevDict.words[i].count
                              + (IF words[i].word = lastOp.word THEN 1 ELSE 0)
             ELSE /\ vocabSize = prevDict.size + 1
                  /\ words = Append(prevDict.words, [word |-> lastOp.word, count |-> 1])
                  /\ \E h \in Slots :
                        /\ prevDict.word2int[h + 1] = -1
                        /\ word2int = [prevDict.word2int EXCEPT ![h + 1] = prevDict.size]

\* C18 witness: an add has raised the count of a word that is stored past the
\* slot its hash names, the dictionary holding two or more words and a slot
\* still being free.
C18_Witness ==
    /\ lastOp.op = "add"
    /\ FreeSlotExists
    /\ lastOp.word \in WordsOf(prevDict)
    /\ find(CurDict, lastOp.word) # hash_(lastOp.word) % max_vocab_size
    /\ vocabSize >= 2

(***************************************************************************)
(* ModelDictionary.read, and build_vocab around it.                        *)
(***************************************************************************)
MaxReadLen == 5
MaxBuildLen == 3
MaxNgram == 2
BucketBits == 1

\* self.bucket (2000000 by default), scaled down to a power of two.
bucket == 2^BucketBits

\* The words read, in order.  read visits the words of all sentences one
\* after the other; where a sentence ends plays no part in it.
Streams(n) == UNION {[1..k -> Words] : k \in 0..n}

Occurrences(s, word) == Cardinality({i \in 1..Len(s) : s[i] = word})

\* if self.size > 0.75 * self.max_vocab_size
OverBoundNever(d) == FALSE
OverBound(d) == 4 * d.size > 3 * Capacity(d)

\* min_threshold = 1, and `min_threshold += 1` before each use
FirstThreshold == 1
NextThreshold(mt) == mt + 1

\* init_table_discard: one value per id, computed from count / ntokens.
DiscardTable(d) == [i \in 1..d.size |-> [count |-> d.words[i].count, ntokens |-> d.ntokens]]

\* init_ngrams, the string built for start j and the n-th pass of the inner
\* loop: the pass appends word[k] for k = j + n - 1 and then, in its while
\* loop, every later character of the word; ngram is not reset between passes.
RECURSIVE NgramString(_, _, _)
NgramString(word, j, n) ==
    IF n = 0 THEN <<>>
    ELSE NgramString(word, j, n - 1) \o SubSeq(word, j + n, Len(word))

\* the value of k when the condition of line 252 is evaluated
KAtTest(word, j, n) == Len(word)

\* n >= self.minn and ((n == 1 and (j == 0 or k == len(word))) is False)
KeepNgram(word, j, n, k, mn) == n >= mn /\ ~(n = 1 /\ (j = 0 \/ k = Len(word)))

\* zip(range(j, len(word)), range(1, self.maxn + 1)) gives n = 1..min(len - j, maxn)
Passes(word, j, mx) == IF Len(word) - j < mx THEN Len(word) - j ELSE mx

RECURSIVE NgramIdsFrom(_, _, _, _, _, _)
NgramIdsFrom(word, j, n, size, mn, mx) ==
    IF n > Passes(word, j, mx) THEN <<>>
    ELSE (IF KeepNgram(word, j, n, KAtTest(word, j, n), mn)
          THEN <<size + (hash_(NgramString(word, j, n)) % bucket)>>
          ELSE <<>>)
         \o NgramIdsFrom(word, j, n + 1, size, mn, mx)

RECURSIVE WordNgramIds(_, _, _, _, _)
WordNgramIds(word, j, size, mn, mx) ==
    IF j >= Len(word) THEN <<>>
    ELSE NgramIdsFrom(word, j, 1, size, mn, mx) \o WordNgramIds(word, j + 1, size, mn, mx)

\* init_ngrams: what the loop appends, in order.  Every Entry is made by
\* Entry(word=word, count=1), so every entry's subwords is the one list that
\* is the default value of the parameter: all appends go to that list.
RECURSIVE Appended(_, _, _, _)
Appended(d, i, mn, mx) ==
    IF i >= d.size THEN <<>>
    ELSE <<i>> \o WordNgramIds(d.words[i + 1].word, 0, d.size, mn, mx)
              \o Appended(d, i + 1, mn, mx)

\* if(self.size == 0)
IsEmptyNever(size) == FALSE
IsEmpty(size) == size = 0

\* ModelDictionary.__init__ has run.
Constructed(n) ==
    /\ max_vocab_size = n
    /\ words = <<>>
    /\ word2int = EmptyTable(n)
    /\ dict_ntokens = 0
    /\ pdiscard = <<>>
    /\ dpc = "ready"

\* Line 191.
ReadEnter ==
    /\ pcBuild = "new"
    /\ pcBuild' = "read"
    /\ min_threshold' = FirstThreshold
    /\ read_idx' = 0
    /\ UNCHANGED <<sentence, min_count, minn, maxn, buildExc, applied, wi_rows,
                   wo_rows>>
    /\ UNCHANGED <<negVars, trainVars, dictVars>>
    /\ UNCHANGED auxVars

\* Lines 193-199: one word of the stream.
ReadWord ==
    /\ pcBuild = "read"
    /\ read_idx < Len(sentence)
    /\ CanFind(CurDict, sentence[read_idx + 1])
    /\ LET d == add(CurDict, sentence[read_idx + 1])
       IN  IF OverBound(d)
           THEN /\ min_threshold' = NextThreshold(min_threshold)
                /\ SetDict(threshold(d, min_threshold'))
                /\ applied' = Append(applied, min_threshold')
           ELSE /\ SetDict(d)
                /\ UNCHANGED <<min_threshold, applied>>
    /\ read_idx' = read_idx + 1
    /\ UNCHANGED <<sentence, min_count, minn, maxn, pcBuild, buildExc, wi_rows,
                   wo_rows>>
    /\ UNCHANGED <<max_vocab_size, pdiscard, subwords, dpc, fpc, fword, fh,
                   fwrapped, fprev, lastOp, prevDict>>
    /\ UNCHANGED <<negatives, negpos, gpc, gtarget, gnegative, gloaded, gstart,
                   ginterfered>>
    /\ UNCHANGED trainVars
    /\ UNCHANGED auxVars

\* Lines 201-207: the stream has ended.
ReadFinish ==
    /\ pcBuild = "read"
    /\ read_idx = Len(sentence)
    /\ LET d == threshold(CurDict, min_count)
       IN  /\ SetDict(d)
           /\ pdiscard' = pdiscard \o DiscardTable(d)
           /\ subwords' = subwords \o Appended(d, 0, minn, maxn)
           /\ IF IsEmpty(d.size)
              THEN pcBuild' = "raised" /\ buildExc' = "SystemExit"
              ELSE pcBuild' = "read_done" /\ UNCHANGED buildExc
    /\ UNCHANGED <<sentence, min_count, minn, maxn, read_idx, min_threshold,
                   applied, wi_rows, wo_rows>>
    /\ UNCHANGED <<max_vocab_size, dpc, fpc, fword, fh, fwrapped, fprev, lastOp,
                   prevDict>>
    /\ UNCHANGED <<negatives, negpos, gpc, gtarget, gnegative, gloaded, gstart,
                   ginterfered>>
    /\ UNCHANGED trainVars
    /\ UNCHANGED auxVars

\* ReadSpec: read called on a newly constructed ModelDictionary.
ReadInit ==
    /\ UnbuiltConfig /\ TrainIdle /\ NegIdle /\ FindIdle /\ AuxIdle
    /\ \E n \in Capacities : Constructed(n)
    /\ subwords = <<>>
    /\ sentence \in Streams(MaxReadLen)
    /\ min_count \in 0..MaxThreshold
    /\ maxn \in 1..MaxNgram
    /\ minn \in 1..maxn
    /\ pcBuild = "new"
    /\ buildExc = "none"
    /\ read_idx = 0
    /\ min_threshold = 0
    /\ applied = <<>>
    /\ wi_rows = -1
    /\ wo_rows = -1

ReadNext == ReadEnter \/ ReadWord \/ ReadFinish

ReadSpec == ReadInit /\ [][ReadNext]_vars

(***************************************************************************)
(* Properties of read.                                                     *)
(***************************************************************************)
ReadOver == pcBuild \in {"read_done", "returned", "raised"}
CountOf(word) ==
    IF word \in WordsOf(CurDict)
    THEN (CHOOSE e \in {words[i] : i \in 1..Len(words)} : e.word = word).count
    ELSE 0

\* C12: read of the one sentence ["a","b","a","b","c"] with min_count = 1, on
\* a table large enough for the 75% bound not to be met, ends with size = 3
\* and ntokens = 5, and the entry of "a" has count 2.
C12_ReadScenario ==
    (/\ sentence = <<WordList[1], WordList[2], WordList[1], WordList[2], WordList[3]>>
     /\ min_count = 1
     /\ max_vocab_size = 2^CapacityBits
     /\ ReadOver)
    => /\ vocabSize = 3
       /\ dict_ntokens = 5
       /\ CountOf(WordList[1]) = 2

\* words[i].subwords of the source: whichever entry is asked, the list is the
\* one list all entries share.
SubwordsOf(i) == subwords

\* the characters j .. j + n - 1 of word (j counted from 0)
Substring(word, j, n) == SubSeq(word, j + 1, j + n)

\* The ids C16 names for a word: one per substring of a length n in
\* minn..maxn, by start offset and then length, a single character only at
\* the start or at the end of the word.
ClaimedPairs(word) ==
    SelectSeq([x \in 1..(Len(word) * maxn) |->
                  [j |-> (x - 1) \div maxn, n |-> ((x - 1) % maxn) + 1]],
              LAMBDA p : /\ p.n >= minn
                         /\ p.j + p.n <= Len(word)
                         /\ p.n = 1 => (p.j = 0 \/ p.j = Len(word) - 1))

ClaimedNgramIds(word) ==
    [x \in 1..Len(ClaimedPairs(word)) |->
        vocabSize + (hash_(Substring(word, ClaimedPairs(word)[x].j,
                                     ClaimedPairs(word)[x].n)) % bucket)]

\* C16: after init_ngrams the subwords of every retained word are its own id
\* followed by one hashed id in [size, size + bucket) for each substring of a
\* length in [minn, maxn], by start offset and then length, a substring of
\* length 1 being taken only at the start or the end of the word.
C16_SubwordsOfEachWord ==
    pcBuild = "read_done" =>
        \A i \in 1..vocabSize :
            SubwordsOf(i) = <<i - 1>> \o ClaimedNgramIds(words[i].word)

\* C19: the progressive thresholds of a read call are threshold(1),
\* threshold(2), threshold(3), ... in this order; when read is over, the final
\* threshold(min_count) has been applied and the discard table has one value
\* per retained word.
C19_ProgressiveThreshold ==
    /\ \A i \in 1..Len(applied) : applied[i] = i
    /\ ReadOver =>
          /\ \A i \in 1..Len(words) : words[i].count > min_count
          /\ Len(pdiscard) = vocabSize

(***************************************************************************)
(* BuildSpec: build_vocab on a newly constructed Sent2Vec model.           *)
(***************************************************************************)
\* counts[i] ** 0.5 is exact for the streams of this model: every word
\* occurs a perfect-square number of times.
SquareCounts(s) ==
    \A word \in Words : \E r \in 0..MaxRoot : Occurrences(s, word) = r * r

Root(c) == CHOOSE r \in 0..c : r * r = c

\* Lines 604-605: self.dict = ModelDictionary(...), with the default
\* max_vocab_size, here the largest capacity of the model.
BuildVocabEnter ==
    /\ pcBuild = "idle"
    /\ ~dictBuilt
    /\ dictBuilt' = TRUE
    /\ max_vocab_size' = 2^CapacityBits
    /\ words' = <<>>
    /\ word2int' = EmptyTable(2^CapacityBits)
    /\ vocabSize' = 0
    /\ dict_ntokens' = 0
    /\ pdiscard' = <<>>
    /\ dpc' = "ready"
    /\ pcBuild' = "new"
    /\ UNCHANGED <<subwords, fpc, fword, fh, fwrapped, fprev, lastOp, prevDict>>
    /\ UNCHANGED <<sentence, min_count, minn, maxn, buildExc, read_idx,
                   min_threshold, applied, wi_rows, wo_rows>>
    /\ UNCHANGED <<negatives, negpos, gpc, gtarget, gnegative, gloaded, gstart,
                   ginterfered>>
    /\ UNCHANGED <<workers, queue_factor, epochs, batch_words, corpus,
                   pcMain, exc, job_queue, progress_queue, unfinished_worker_count,
                   job_tally, trained_word_count, raw_word_count, train_count,
                   pcProd, sent_idx, job_batch, batch_size, pushed_words, next_lr,
                   job_no, sentinels, pcW, curJob,
                   dispatched, takenCount, reportCount, consumedCount>>
    /\ UNCHANGED auxVars

\* Lines 607-612, reached only if read returned: wi gets size + bucket rows,
\* wo gets size rows, the table of negatives is filled and shuffled.
BuildVocabTables ==
    /\ pcBuild = "read_done"
    /\ wi_rows' = vocabSize + bucket
    /\ wo_rows' = vocabSize
    /\ negatives' \in ShuffledTables([i \in 1..vocabSize |-> Root(words[i].count)])
    /\ pcBuild' = "returned"
    /\ UNCHANGED <<sentence, min_count, minn, maxn, buildExc, read_idx,
                   min_threshold, applied>>
    /\ UNCHANGED <<vocabSize, negpos, gpc, gtarget, gnegative, gloaded, gstart,
                   ginterfered>>
    /\ UNCHANGED <<trainVars, dictVars>>
    /\ UNCHANGED auxVars

BuildInit ==
    /\ UnbuiltConfig /\ TrainIdle /\ NegIdle
    /\ DictIdle /\ FindIdle /\ ReadIdle /\ AuxIdle
    /\ sentence \in {s \in Streams(MaxBuildLen) : SquareCounts(s)}
    /\ min_count \in 0..MaxThreshold
    /\ maxn \in 1..MaxNgram
    /\ minn \in 1..maxn

BuildNext ==
    \/ BuildVocabEnter
    \/ ReadEnter
    \/ ReadWord
    \/ ReadFinish
    \/ BuildVocabTables

BuildSpec == BuildInit /\ [][BuildNext]_vars

\* C14: when no word survives the final threshold(min_count), read ends by
\* the exception of its empty-vocabulary exit (sys.exit() raises SystemExit),
\* which leaves build_vocab as well; build_vocab then has allocated neither
\* wi nor wo and has not built the table of negatives, and it goes no
\* further.  A read that returns has retained a word.
C14_EmptyVocabularyAborts ==
    /\ pcBuild \in {"read_done", "returned"} => vocabSize > 0
    /\ (ReadOver /\ vocabSize = 0) =>
          /\ pcBuild = "raised"
          /\ buildExc = "SystemExit"
          /\ wi_rows = -1
          /\ wo_rows = -1
          /\ negatives = <<>>
          /\ ~ENABLED BuildVocabTables

\* C14 witness: words were read, none of them survived the final threshold,
\* and build_vocab has been left by the exception.
C14_Witness ==
    /\ pcBuild = "raised"
    /\ dictBuilt
    /\ dict_ntokens >= 2
    /\ vocabSize = 0
    /\ min_count >= 1

(***************************************************************************)
(* add_ngrams and add_ngrams_train.                                        *)
(***************************************************************************)
MaxContextLen == 4
MaxSpan == 3
MaxDropout == 2

\* h = h * 116049371 + line[j]
NgramMultiplier == 116049371

\* Only h % self.bucket is used, and (h * m + x) % b depends on h through
\* h % b alone: h is kept reduced.
NextHash(h, id) == ((h % bucket) * NgramMultiplier + id) % bucket

\* `if j >= i + n: break`
PastSpanLate(i, j, n) == j > i + n
PastSpan(i, j, n) == j >= i + n

\* add_ngrams, lines 314-318: the ids appended for start i, from j on.
RECURSIVE SpanIds(_, _, _, _, _, _)
SpanIds(context, i, j, h, n, size) ==
    IF j >= Len(context) \/ PastSpan(i, j, n) THEN <<>>
    ELSE <<size + NextHash(h, context[j + 1])>>
         \o SpanIds(context, i, j + 1, NextHash(h, context[j + 1]), n, size)

\* add_ngrams, lines 312-318: the outer loop from i on.
RECURSIVE AllSpanIds(_, _, _, _)
AllSpanIds(context, i, n, size) ==
    IF i >= Len(context) THEN <<>>
    ELSE SpanIds(context, i, i + 1, context[i + 1], n, size)
         \o AllSpanIds(context, i + 1, n, size)

add_ngrams(context, n, size) == context \o AllSpanIds(context, 0, n, size)

\* add_ngrams_train: `while num_discarded < k and line_size - num_discarded > 2`
MayDiscardToOne(num, k, line_size) == num < k /\ line_size - num > 1
MayDiscard(num, k, line_size) == num < k /\ line_size - num > 2

\* add_ngrams_train, lines 287-291: `if j >= i + n or discard[j] is True: break`
RECURSIVE TrainSpanIds(_, _, _, _, _, _, _)
TrainSpanIds(context, discard, i, j, h, n, size) ==
    IF j >= Len(context) \/ j >= i + n \/ discard[j + 1] THEN <<>>
    ELSE <<size + NextHash(h, context[j + 1])>>
         \o TrainSpanIds(context, discard, i, j + 1, NextHash(h, context[j + 1]), n, size)

\* add_ngrams_train, lines 283-291: `if discard[i] is True: continue`
RECURSIVE AllTrainSpanIds(_, _, _, _, _)
AllTrainSpanIds(context, discard, i, n, size) ==
    IF i >= Len(context) THEN <<>>
    ELSE (IF discard[i + 1] THEN <<>>
          ELSE TrainSpanIds(context, discard, i, i + 1, context[i + 1], n, size))
         \o AllTrainSpanIds(context, discard, i + 1, n, size)

TrainLine(context, discard, n, size) ==
    context \o AllTrainSpanIds(context, discard, 0, n, size)

\* Line 294-319 as one step.
AddNgrams ==
    /\ ng_pc = "idle"
    /\ ng_fn' = "add_ngrams"
    /\ ng_line' = add_ngrams(ng_context, ng_n, vocabSize)
    /\ ng_pc' = "done"
    /\ UNCHANGED <<ng_context, ng_n, ng_k, ng_discard, ng_num_discarded>>
    /\ UNCHANGED <<trainVars, negVars, dictVars, readVars, jobVars, moreVars>>

\* Lines 274-277.
AddNgramsTrainEnter ==
    /\ ng_pc = "idle"
    /\ ng_fn' = "add_ngrams_train"
    /\ ng_discard' = [i \in 1..Len(ng_context) |-> FALSE]
    /\ ng_num_discarded' = 0
    /\ ng_pc' = "discard"
    /\ UNCHANGED <<ng_context, ng_n, ng_k, ng_line>>
    /\ UNCHANGED <<trainVars, negVars, dictVars, readVars, jobVars, moreVars>>

\* Lines 278-282: one pass of the while loop; randint(0, line_size - 1) may
\* name a position that is discarded already.
DiscardDraw ==
    /\ ng_pc = "discard"
    /\ MayDiscard(ng_num_discarded, ng_k, Len(ng_context))
    /\ \E token_to_discard \in 0..(Len(ng_context) - 1) :
          IF ~ng_discard[token_to_discard + 1]
          THEN /\ ng_discard' = [ng_discard EXCEPT ![token_to_discard + 1] = TRUE]
               /\ ng_num_discarded' = ng_num_discarded + 1
          ELSE UNCHANGED <<ng_discard, ng_num_discarded>>
    /\ UNCHANGED <<ng_context, ng_n, ng_k, ng_pc, ng_fn, ng_line>>
    /\ UNCHANGED <<trainVars, negVars, dictVars, readVars, jobVars, moreVars>>

\* Lines 283-292: the while loop has ended.
AddNgramsTrainFinish ==
    /\ ng_pc = "discard"
    /\ ~MayDiscard(ng_num_discarded, ng_k, Len(ng_context))
    /\ ng_line' = TrainLine(ng_context, ng_discard, ng_n, vocabSize)
    /\ ng_pc' = "done"
    /\ UNCHANGED <<ng_context, ng_n, ng_k, ng_fn, ng_discard, ng_num_discarded>>
    /\ UNCHANGED <<trainVars, negVars, dictVars, readVars, jobVars, moreVars>>

\* The calls are made on a dictionary of some size with a context of its ids.
NgramInit ==
    /\ UnbuiltConfig /\ TrainIdle
    /\ DictIdle /\ FindIdle /\ ReadIdle /\ NoRead /\ JobIdle /\ MoreIdle
    /\ vocabSize \in 1..(MaxVocab + 1)
    /\ negatives = <<>>
    /\ negpos = 1
    /\ gpc = [w \in WorkerIds |-> "idle"]
    /\ gtarget = [w \in WorkerIds |-> 0]
    /\ gnegative = [w \in WorkerIds |-> 0]
    /\ gloaded = [w \in WorkerIds |-> 0]
    /\ gstart = [w \in WorkerIds |-> 0]
    /\ ginterfered = [w \in WorkerIds |-> FALSE]
    /\ ng_context \in UNION {[1..len -> 0..(vocabSize - 1)] : len \in 0..MaxContextLen}
    /\ ng_n \in 1..MaxSpan
    /\ ng_k \in 0..MaxDropout
    /\ ng_pc = "idle"
    /\ ng_fn = "none"
    /\ ng_discard = <<>>
    /\ ng_num_discarded = 0
    /\ ng_line = <<>>

NgramNext ==
    \/ AddNgrams
    \/ AddNgramsTrainEnter
    \/ DiscardDraw
    \/ AddNgramsTrainFinish

NgramSpec == NgramInit /\ [][NgramNext]_vars

(***************************************************************************)
(* Properties of add_ngrams and add_ngrams_train.                          *)
(***************************************************************************)
\* the pairs (i, j) with i < j < min(i + n, len), by i and then by j
SpanPairs(len, n) ==
    SelectSeq([x \in 1..(len * len) |-> [i |-> (x - 1) \div len, j |-> (x - 1) % len]],
              LAMBDA p : p.i < p.j /\ p.j < p.i + n)

\* the hash of the ids at the positions i..j, reduced modulo bucket
RECURSIVE SpanHash(_, _, _)
SpanHash(context, i, j) ==
    IF j = i THEN context[i + 1] % bucket
    ELSE (SpanHash(context, i, j - 1) * NgramMultiplier + context[j + 1]) % bucket

NgramIdRange == vocabSize..(vocabSize + bucket - 1)
BaseOf(line) == SubSeq(line, 1, Len(ng_context))
ExtraOf(line) == SubSeq(line, Len(ng_context) + 1, Len(line))

\* C15: add_ngrams(context, n) returns context, unchanged, followed by one id
\* for each pair (i, j) with i < j < min(i + n, len(context)), by increasing
\* i and then increasing j; every appended id lies in [size, size + bucket)
\* and so is no word id; add_ngrams([1,2,3], 2) returns 3 + 2 ids.
C15_AddNgramsSpans ==
    (ng_pc = "done" /\ ng_fn = "add_ngrams") =>
        LET spans == SpanPairs(Len(ng_context), ng_n)
        IN  /\ BaseOf(ng_line) = ng_context
            /\ Len(ng_line) = Len(ng_context) + Len(spans)
            /\ \A x \in 1..Len(spans) :
                  /\ ExtraOf(ng_line)[x]
                        = vocabSize + SpanHash(ng_context, spans[x].i, spans[x].j)
                  /\ ExtraOf(ng_line)[x] \in NgramIdRange
                  /\ ExtraOf(ng_line)[x] \notin 0..(vocabSize - 1)
            /\ (ng_context = <<1, 2, 3>> /\ ng_n = 2) => Len(ng_line) = 3 + 2

\* C15 witness: add_ngrams([1,2,3], 2) has returned its five ids.
C15_Witness ==
    /\ ng_pc = "done" /\ ng_fn = "add_ngrams"
    /\ ng_context = <<1, 2, 3>> /\ ng_n = 2
    /\ Len(ng_line) = 5

Discarded == {i \in 0..(Len(ng_context) - 1) : ng_discard[i + 1]}
Least(a, b) == IF a <= b THEN a ELSE b

\* the spans all of whose positions are kept
KeptSpans ==
    SelectSeq(SpanPairs(Len(ng_context), ng_n),
              LAMBDA p : \A q \in (p.i)..(p.j) : q \notin Discarded)

\* C20: whatever positions the random draws name, add_ngrams_train marks at
\* most k distinct positions as discarded and leaves min(2, len(context)) or
\* more positions unmarked; it returns context, unchanged, followed by the
\* ids of the spans whose start and extension positions are all unmarked,
\* each in [size, size + bucket).
C20_DropoutKeepsTwo ==
    ng_fn = "add_ngrams_train" =>
        /\ Cardinality(Discarded) = ng_num_discarded
        /\ ng_num_discarded <= ng_k
        /\ Len(ng_context) - Cardinality(Discarded) >= Least(2, Len(ng_context))
        /\ ng_pc = "done" =>
              /\ BaseOf(ng_line) = ng_context
              /\ Len(ng_line) = Len(ng_context) + Len(KeptSpans)
              /\ \A x \in 1..Len(KeptSpans) :
                    /\ ExtraOf(ng_line)[x]
                          = vocabSize + SpanHash(ng_context, KeptSpans[x].i, KeptSpans[x].j)
                    /\ ExtraOf(ng_line)[x] \in NgramIdRange

\* C20 witness: two positions of a context of four ids were discarded and an
\* id was appended for the span of the two positions left.
C20_Witness ==
    /\ ng_pc = "done" /\ ng_fn = "add_ngrams_train"
    /\ ng_num_discarded = 2
    /\ Len(ng_context) = 4
    /\ Len(ng_line) = 5

(***************************************************************************)
(* JobSpec: build_vocab, then the workers of a train call running          *)
(* _do_train_job (the Python path, FAST_VERSION == -1) side by side.  Each *)
(* worker goes through the sentences of its jobs: get_line, then for the   *)
(* ids kept by the random down-sampling add_ngrams_train and update, whose *)
(* negative_sampling calls get_negative.                                   *)
(***************************************************************************)
MaxJobLen == 2

\* Defaults of Sent2Vec.__init__ and of ModelDictionary.__init__.
word_ngrams == 2
dropoutk == 2
max_line_size == 1024

\* get_line looks a word up with find and reads word2int; it stores nothing,
\* a word that is not in the dictionary is passed over.
AfterLookupAdds(d, word) == IF CanFind(d, word) THEN add(d, word) ELSE d
AfterLookup(d, word) == d

RECURSIVE LookedUp(_, _)
LookedUp(d, s) ==
    IF s = <<>> THEN d ELSE LookedUp(AfterLookup(d, Head(s)), Tail(s))

\* get_line, lines 339-353, from the word at idx on: [ntokens, words]
RECURSIVE GetLineFrom(_, _, _, _, _)
GetLineFrom(d, s, idx, ntok, ids) ==
    IF idx > Len(s) THEN [ntokens |-> ntok, words |-> ids]
    ELSE LET wid == SlotId(d, find(d, s[idx]))
         IN  IF wid < 0 THEN GetLineFrom(d, s, idx + 1, ntok, ids)
             ELSE IF ntok + 1 > max_line_size
                  THEN [ntokens |-> ntok + 1, words |-> Append(ids, wid)]
                  ELSE GetLineFrom(d, s, idx + 1, ntok + 1, Append(ids, wid))

get_line(d, s) == GetLineFrom(d, s, 1, 0, <<>>)

\* The values of `discard` with which the while loop of add_ngrams_train can
\* end: the loop marks one more position per successful draw and ends at the
\* first count for which its condition fails.
NumTrue(dv) == Cardinality({i \in 1..Len(dv) : dv[i]})
DiscardOutcomes(len, k) ==
    {dv \in [1..len -> BOOLEAN] :
        /\ ~MayDiscard(NumTrue(dv), k, len)
        /\ \A m \in 0..(NumTrue(dv) - 1) : MayDiscard(m, k, len)}

\* The sentences of the jobs: words of the vocabulary and a word outside it.
JobWords == {WordList[1], WordList[3]}
JobSentences == UNION {[1..len -> JobWords] : len \in 1..MaxJobLen}

\* Line 560: ntokens_temp, hashes, words = self.dict.get_line(sentence)
JobGetLine(w) ==
    /\ pcBuild = "returned"
    /\ jpc[w] = "idle"
    /\ \E s \in JobSentences :
          /\ jwords' = [jwords EXCEPT ![w] = get_line(CurDict, s).words]
          /\ SetDict(LookedUp(CurDict, s))
    /\ ji' = [ji EXCEPT ![w] = 0]
    /\ jpc' = [jpc EXCEPT ![w] = "line"]
    /\ UNCHANGED <<max_vocab_size, pdiscard, subwords, dpc, fpc, fword, fh,
                   fwrapped, fprev, lastOp, prevDict>>
    /\ UNCHANGED <<negatives, negpos, gpc, gtarget, gnegative, gloaded, gstart,
                   ginterfered>>
    /\ UNCHANGED <<jcontext, ngramVars, trainVars, readVars, moreVars>>

\* Lines 562-563: the sentence gave fewer than two ids, or the loop over its
\* ids has ended.
JobSentenceDone(w) ==
    /\ jpc[w] = "line"
    /\ Len(jwords[w]) <= 1 \/ ji[w] = Len(jwords[w])
    /\ jpc' = [jpc EXCEPT ![w] = "idle"]
    /\ jwords' = [jwords EXCEPT ![w] = <<>>]
    /\ ji' = [ji EXCEPT ![w] = 0]
    /\ UNCHANGED <<jcontext, ngramVars, trainVars, negVars, dictVars, readVars,
                   moreVars>>

\* Lines 564-565: self.random.uniform(0, 1) > self.dict.pdiscard[words[i]]
JobSkipWord(w) ==
    /\ jpc[w] = "line"
    /\ Len(jwords[w]) > 1
    /\ ji[w] < Len(jwords[w])
    /\ jwords[w][ji[w] + 1] + 1 \in DOMAIN pdiscard
    /\ ji' = [ji EXCEPT ![w] = ji[w] + 1]
    /\ UNCHANGED <<jpc, jwords, jcontext, ngramVars, trainVars, negVars, dictVars,
                   readVars, moreVars>>

\* Lines 566-569: context = list(words); context[i] = 0; add_ngrams_train.
JobExample(w) ==
    /\ jpc[w] = "line"
    /\ Len(jwords[w]) > 1
    /\ ji[w] < Len(jwords[w])
    /\ jwords[w][ji[w] + 1] + 1 \in DOMAIN pdiscard
    /\ \E dv \in DiscardOutcomes(Len(jwords[w]), dropoutk) :
          jcontext' = [jcontext EXCEPT ![w] =
              TrainLine([jwords[w] EXCEPT ![ji[w] + 1] = 0], dv, word_ngrams, vocabSize)]
    /\ jpc' = [jpc EXCEPT ![w] = "update"]
    /\ UNCHANGED <<jwords, ji, ngramVars, trainVars, negVars, dictVars, readVars,
                   moreVars>>

\* Lines 466-470: negative_sampling calls get_negative(target), target being
\* words[i].
JobNegative(w) ==
    /\ jpc[w] = "update"
    /\ GNCall(w)
    /\ gtarget'[w] = jwords[w][ji[w] + 1]

\* Line 570: update has returned.
JobUpdateDone(w) ==
    /\ jpc[w] = "update"
    /\ gpc[w] = "idle"
    /\ jpc' = [jpc EXCEPT ![w] = "line"]
    /\ ji' = [ji EXCEPT ![w] = ji[w] + 1]
    /\ jcontext' = [jcontext EXCEPT ![w] = <<>>]
    /\ UNCHANGED <<jwords, ngramVars, trainVars, negVars, dictVars, readVars,
                   moreVars>>

JobInit ==
    /\ dictBuilt = FALSE
    /\ workers = MaxWorkers /\ queue_factor = 1 /\ epochs = 1
    /\ batch_words = 1 /\ corpus = <<[raw |-> 1, voc |-> 1]>>
    /\ TrainIdle /\ NegIdle
    /\ DictIdle /\ FindIdle /\ ReadIdle /\ AuxIdle
    /\ sentence \in {s \in UNION {[1..len -> {WordList[1], WordList[2]}] : len \in 0..MaxJobLen} :
                        SquareCounts(s)}
    /\ min_count \in 0..1
    /\ minn = 1
    /\ maxn = MaxNgram

JobNext ==
    \/ BuildVocabEnter
    \/ ReadEnter
    \/ ReadWord
    \/ ReadFinish
    \/ BuildVocabTables
    \/ \E w \in WorkerIds : JobGetLine(w)
    \/ \E w \in WorkerIds : JobSentenceDone(w)
    \/ \E w \in WorkerIds : JobSkipWord(w)
    \/ \E w \in WorkerIds : JobExample(w)
    \/ \E w \in WorkerIds : JobNegative(w)
    \/ \E w \in WorkerIds : GNRead(w)
    \/ \E w \in WorkerIds : GNLoad(w)
    \/ \E w \in WorkerIds : GNStore(w)
    \/ \E w \in WorkerIds : GNReturn(w)
    \/ \E w \in WorkerIds : JobUpdateDone(w)

JobSpec == JobInit /\ [][JobNext]_vars

(***************************************************************************)
(* C17: once build_vocab has returned, no step of training changes the     *)
(* dictionary (its hash table, words, size, ntokens), the discard table,   *)
(* the subword lists or the negatives table: the dictionary is only read.  *)
(* Of the sampling state only the cursor negpos moves.                     *)
(***************************************************************************)
C17_TrainLeavesDictionary ==
    [][pcBuild = "returned" =>
          /\ word2int' = word2int
          /\ words' = words
          /\ vocabSize' = vocabSize
          /\ dict_ntokens' = dict_ntokens
          /\ max_vocab_size' = max_vocab_size
          /\ pdiscard' = pdiscard
          /\ subwords' = subwords
          /\ negatives' = negatives]_vars

\* One worker is inside update with a get_negative call that has moved the
\* cursor, the other has looked a sentence up that holds an unknown word.
C17_Witness ==
    /\ pcBuild = "returned"
    /\ \E w \in WorkerIds, v \in WorkerIds :
          /\ w # v
          /\ jpc[w] = "update" /\ gpc[w] = "ret" /\ Len(jcontext[w]) > Len(jwords[w])
          /\ jpc[v] = "line" /\ Len(jwords[v]) = 1
    /\ negpos # 1

(***************************************************************************)
(* HashSpec: one call of hash_ computed as Python computes it.  Python's   *)
(* int does not overflow, so h is kept exactly, as the list of its         *)
(* base-256 digits, lowest digit first and without leading zeros.          *)
(***************************************************************************)
MaxWordLen == 3

\* The characters of the words hashed: 'a', 'b', 'c'.
Chars == {97, 98, 99}
HashWords == UNION {[1..len -> Chars] : len \in 0..MaxWordLen}

Base == 256

\* h = 2166136261 = 0x811C9DC5 and the factor 16777619 = 0x01000193
FnvOffset == <<197, 157, 28, 129>>
FnvPrime == <<147, 1, 0, 1>>

RECURSIVE Normal(_)
Normal(a) ==
    IF a # <<>> /\ a[Len(a)] = 0 THEN Normal(SubSeq(a, 1, Len(a) - 1)) ELSE a

Digit(a, i) == IF i <= Len(a) THEN a[i] ELSE 0

\* a + b + carry, digit by digit from position i on
RECURSIVE SumFrom(_, _, _, _)
SumFrom(a, b, i, carry) ==
    IF i > Len(a) /\ i > Len(b)
    THEN IF carry = 0 THEN <<>> ELSE <<carry>>
    ELSE LET t == Digit(a, i) + Digit(b, i) + carry
         IN  <<t % Base>> \o SumFrom(a, b, i + 1, t \div Base)

Sum(a, b) == SumFrom(a, b, 1, 0)

\* a * m for one digit m
RECURSIVE TimesDigitFrom(_, _, _, _)
TimesDigitFrom(a, m, i, carry) ==
    IF i > Len(a)
    THEN IF carry = 0 THEN <<>> ELSE <<carry % Base, carry \div Base>>
    ELSE LET t == a[i] * m + carry
         IN  <<t % Base>> \o TimesDigitFrom(a, m, i + 1, t \div Base)

Shifted(a, k) == [i \in 1..k |-> 0] \o a

\* a * b: the sum over the digits of b
RECURSIVE TimesFrom(_, _, _)
TimesFrom(a, b, j) ==
    IF j > Len(b) THEN <<>>
    ELSE Sum(Shifted(TimesDigitFrom(a, b[j], 1, 0), j - 1), TimesFrom(a, b, j + 1))

Times(a, b) == Normal(TimesFrom(a, b, 1))

\* h ^ ord(word[i]): the code of a character is below Base, so only the
\* lowest digit changes.
XorChar(a, c) == Normal(<<Xor(Digit(a, 1), c)>> \o SubSeq(a, 2, Len(a)))

\* Line 132: h = 2166136261
HashCall ==
    /\ hpc = "idle"
    /\ hval' = FnvOffset
    /\ hidx' = 0
    /\ hpc' = "loop"
    /\ UNCHANGED hword
    /\ UNCHANGED <<trainVars, negVars, dictVars, readVars, ngramVars, jobVars,
                   updVars>>

\* Lines 133-135: one pass of the loop
HashChar ==
    /\ hpc = "loop"
    /\ hidx < Len(hword)
    /\ hval' = Times(XorChar(hval, hword[hidx + 1]), FnvPrime)
    /\ hidx' = hidx + 1
    /\ UNCHANGED <<hpc, hword>>
    /\ UNCHANGED <<trainVars, negVars, dictVars, readVars, ngramVars, jobVars,
                   updVars>>

\* Line 136: return h
HashReturn ==
    /\ hpc = "loop"
    /\ hidx = Len(hword)
    /\ hpc' = "returned"
    /\ UNCHANGED <<hword, hidx, hval>>
    /\ UNCHANGED <<trainVars, negVars, dictVars, readVars, ngramVars, jobVars,
                   updVars>>

HashInit ==
    /\ UnbuiltConfig /\ TrainIdle /\ NegIdle
    /\ DictIdle /\ FindIdle /\ ReadIdle /\ NoRead
    /\ NgramIdle /\ JobIdle /\ UpdIdle
    /\ hpc = "idle"
    /\ hword \in HashWords
    /\ hidx = 0
    /\ hval = <<>>

HashNext ==
    \/ HashCall
    \/ HashChar
    \/ HashReturn

HashSpec == HashInit /\ [][HashNext]_vars

\* The low 15 bits of the exact hash are the value hash_ above works with.
LowBits(a) == (Digit(a, 1) + Base * Digit(a, 2)) % HashModulus
LowBitsAgree == hpc = "returned" => LowBits(hval) = hash_(hword)

\* What 32-bit wraparound arithmetic gives: every product reduced mod 2^32,
\* that is, cut to four base-256 digits.
Wrapped(a) == Normal(SubSeq(a, 1, IF Len(a) < 4 THEN Len(a) ELSE 4))

RECURSIVE Hash32From(_, _)
Hash32From(h, word) ==
    IF word = <<>> THEN h
    ELSE Hash32From(Wrapped(Times(XorChar(h, Head(word)), FnvPrime)), Tail(word))

Hash32(word) == Hash32From(FnvOffset, word)

\* C21: hash_ works in unsigned 32-bit wraparound arithmetic: the value it
\* returns for a word is the FNV-1a hash with every product taken mod 2^32,
\* and so lies in [0, 2^32), that is, has at most four base-256 digits.
C21_Hash32BitWraparound ==
    hpc = "returned" => Len(hval) <= 4 /\ hval = Hash32(hword)

(***************************************************************************)
(* UpdateSpec: the workers of a train call inside update (Python path).    *)
(* update, negative_sampling and binary_logistic keep the hidden vector    *)
(* and the gradient in the attributes self.hidden and self.grad of the one *)
(* model object; the arrays hidden and grad that worker_loop allocates are *)
(* passed to _do_train_job and not used there.  A vector is modelled by    *)
(* the worker whose np.zeros allocated it and the workers that have added  *)
(* to it.  Every statement is one step.                                    *)
(***************************************************************************)
MaxInput == 1
MaxNeg == 1

\* self.neg (10 by default), scaled down
neg == MaxNeg

\* np.zeros(self.vector_size), executed by worker w
Zeros(w) == [alloc |-> w, adds |-> {}]

\* vec += ..., executed by worker w
AddedBy(vec, w) == [vec EXCEPT !.adds = @ \cup {w}]

\* Lines 589-590: the call and its asserts
UpdCall(w) ==
    /\ upc[w] = "idle"
    /\ negatives # <<>>
    /\ \E len \in 0..MaxInput : ulen' = [ulen EXCEPT ![w] = len]
    /\ \E target \in 0..(vocabSize - 1) : utarget' = [utarget EXCEPT ![w] = target]
    /\ upc' = [upc EXCEPT ![w] = "called"]
    /\ UNCHANGED <<uk, hidden, grad, uhidden, ugrad>>
    /\ UNCHANGED <<trainVars, negVars, dictVars, readVars, ngramVars, jobVars, hashVars>>

\* Lines 591-592: if len(input_) == 0: return
UpdEmpty(w) ==
    /\ upc[w] = "called"
    /\ ulen[w] = 0
    /\ upc' = [upc EXCEPT ![w] = "idle"]
    /\ utarget' = [utarget EXCEPT ![w] = 0]
    /\ UNCHANGED <<ulen, uk, hidden, grad, uhidden, ugrad>>
    /\ UNCHANGED <<trainVars, negVars, dictVars, readVars, ngramVars, jobVars, hashVars>>

\* Line 593: self.hidden = np.zeros(self.vector_size)
UpdZeroHidden(w) ==
    /\ upc[w] = "called"
    /\ ulen[w] > 0
    /\ hidden' = Zeros(w)
    /\ upc' = [upc EXCEPT ![w] = "sum"]
    /\ uk' = [uk EXCEPT ![w] = 0]
    /\ UNCHANGED <<ulen, utarget, grad, uhidden, ugrad>>
    /\ UNCHANGED <<trainVars, negVars, dictVars, readVars, ngramVars, jobVars, hashVars>>

\* Lines 594-595: self.hidden += self.wi[i]
UpdSum(w) ==
    /\ upc[w] = "sum"
    /\ uk[w] < ulen[w]
    /\ hidden' = AddedBy(hidden, w)
    /\ uk' = [uk EXCEPT ![w] = uk[w] + 1]
    /\ UNCHANGED <<upc, ulen, utarget, grad, uhidden, ugrad>>
    /\ UNCHANGED <<trainVars, negVars, dictVars, readVars, ngramVars, jobVars, hashVars>>

\* Line 596: self.hidden *= (1.0 / len(input_)), then the call of
\* negative_sampling on line 597
UpdScale(w) ==
    /\ upc[w] = "sum"
    /\ uk[w] = ulen[w]
    /\ upc' = [upc EXCEPT ![w] = "ns"]
    /\ uk' = [uk EXCEPT ![w] = 0]
    /\ UNCHANGED <<ulen, utarget, hidden, grad, uhidden, ugrad>>
    /\ UNCHANGED <<trainVars, negVars, dictVars, readVars, ngramVars, jobVars, hashVars>>

\* Line 465: self.grad = np.zeros(self.vector_size)
NsZeroGrad(w) ==
    /\ upc[w] = "ns"
    /\ grad' = Zeros(w)
    /\ upc' = [upc EXCEPT ![w] = "logit"]
    /\ UNCHANGED <<ulen, utarget, uk, hidden, uhidden, ugrad>>
    /\ UNCHANGED <<trainVars, negVars, dictVars, readVars, ngramVars, jobVars, hashVars>>

\* binary_logistic, lines 499-502: reads self.hidden, adds to self.grad
\* (and to the row wo[target])
binary_logistic(w) ==
    /\ uhidden' = [uhidden EXCEPT ![w] = hidden]
    /\ grad' = AddedBy(grad, w)
    /\ uk' = [uk EXCEPT ![w] = uk[w] + 1]
    /\ UNCHANGED <<upc, ulen, utarget, hidden, ugrad>>

\* Lines 467-468: i == 0, binary_logistic(target, True, lr)
NsPositive(w) ==
    /\ upc[w] = "logit"
    /\ uk[w] = 0
    /\ binary_logistic(w)
    /\ UNCHANGED <<trainVars, negVars, dictVars, readVars, ngramVars, jobVars, hashVars>>

\* Line 470, i > 0: the call self.get_negative(target)
NsNegativeCall(w) ==
    /\ upc[w] = "logit"
    /\ uk[w] \in 1..neg
    /\ GNCall(w)
    /\ gtarget'[w] = utarget[w]

\* Line 470: get_negative returns (line 551) and binary_logistic(negative,
\* False, lr) runs
NsNegative(w) ==
    /\ upc[w] = "logit"
    /\ gpc[w] = "ret"
    /\ gpc' = [gpc EXCEPT ![w] = "idle"]
    /\ gtarget' = [gtarget EXCEPT ![w] = 0]
    /\ gnegative' = [gnegative EXCEPT ![w] = 0]
    /\ gloaded' = [gloaded EXCEPT ![w] = 0]
    /\ gstart' = [gstart EXCEPT ![w] = 0]
    /\ ginterfered' = [ginterfered EXCEPT ![w] = FALSE]
    /\ binary_logistic(w)
    /\ UNCHANGED <<vocabSize, negatives, negpos>>
    /\ UNCHANGED <<trainVars, dictVars, readVars, ngramVars, jobVars, hashVars>>

\* Line 471 and line 598: negative_sampling returns,
\* self.grad *= (1.0 / len(input_))
UpdScaleGrad(w) ==
    /\ upc[w] = "logit"
    /\ uk[w] = neg + 1
    /\ upc' = [upc EXCEPT ![w] = "wi"]
    /\ uk' = [uk EXCEPT ![w] = 0]
    /\ UNCHANGED <<ulen, utarget, hidden, grad, uhidden, ugrad>>
    /\ UNCHANGED <<trainVars, negVars, dictVars, readVars, ngramVars, jobVars, hashVars>>

\* Lines 599-600: self.wi[i] += self.grad
UpdAddGrad(w) ==
    /\ upc[w] = "wi"
    /\ uk[w] < ulen[w]
    /\ ugrad' = [ugrad EXCEPT ![w] = grad]
    /\ uk' = [uk EXCEPT ![w] = uk[w] + 1]
    /\ UNCHANGED <<upc, ulen, utarget, hidden, grad, uhidden>>
    /\ UNCHANGED <<trainVars, negVars, dictVars, readVars, ngramVars, jobVars, hashVars>>

\* Line 601: return loss
UpdReturn(w) ==
    /\ upc[w] = "wi"
    /\ uk[w] = ulen[w]
    /\ upc' = [upc EXCEPT ![w] = "idle"]
    /\ ulen' = [ulen EXCEPT ![w] = 0]
    /\ utarget' = [utarget EXCEPT ![w] = 0]
    /\ uk' = [uk EXCEPT ![w] = 0]
    /\ uhidden' = [uhidden EXCEPT ![w] = NoVec]
    /\ ugrad' = [ugrad EXCEPT ![w] = NoVec]
    /\ UNCHANGED <<hidden, grad>>
    /\ UNCHANGED <<trainVars, negVars, dictVars, readVars, ngramVars, jobVars, hashVars>>

\* A model whose vocabulary of two equally frequent words has been built,
\* with MaxWorkers worker threads.
UpdInit ==
    /\ dictBuilt = TRUE
    /\ workers = MaxWorkers /\ queue_factor = 1 /\ epochs = 1
    /\ batch_words = 1 /\ corpus = <<[raw |-> 1, voc |-> 1]>>
    /\ TrainIdle
    /\ vocabSize = 2
    /\ negatives \in ShuffledTables(<<1, 1>>)
    /\ negpos = 1
    /\ gpc = [w \in WorkerIds |-> "idle"]
    /\ gtarget = [w \in WorkerIds |-> 0]
    /\ gnegative = [w \in WorkerIds |-> 0]
    /\ gloaded = [w \in WorkerIds |-> 0]
    /\ gstart = [w \in WorkerIds |-> 0]
    /\ ginterfered = [w \in WorkerIds |-> FALSE]
    /\ DictIdle /\ FindIdle /\ ReadIdle /\ NoRead
    /\ NgramIdle /\ JobIdle /\ HashIdle /\ UpdIdle

UpdNext ==
    \/ \E w \in WorkerIds : UpdCall(w)
    \/ \E w \in WorkerIds : UpdEmpty(w)
    \/ \E w \in WorkerIds : UpdZeroHidden(w)
    \/ \E w \in WorkerIds : UpdSum(w)
    \/ \E w \in WorkerIds : UpdScale(w)
    \/ \E w \in WorkerIds : NsZeroGrad(w)
    \/ \E w \in WorkerIds : NsPositive(w)
    \/ \E w \in WorkerIds : NsNegativeCall(w)
    \/ \E w \in WorkerIds : GNRead(w)
    \/ \E w \in WorkerIds : GNLoad(w)
    \/ \E w \in WorkerIds : GNStore(w)
    \/ \E w \in WorkerIds : NsNegative(w)
    \/ \E w \in WorkerIds : UpdScaleGrad(w)
    \/ \E w \in WorkerIds : UpdAddGrad(w)
    \/ \E w \in WorkerIds : UpdReturn(w)

UpdateSpec == UpdInit /\ [][UpdNext]_vars

\* A vector that worker w allocated and nobody else has added to.
Private(vec, w) == vec.alloc = w /\ vec.adds \subseteq {w}

\* C22: the hidden vector and the gradient are private to each worker: the
\* hidden vector a worker's logistic step reads, and the gradient a worker
\* adds to wi, were allocated by that worker for the update under way and
\* hold only that worker's additions, in every interleaving.
C22_HiddenAndGradPrivate ==
    \A w \in WorkerIds :
        /\ uhidden[w] # NoVec => Private(uhidden[w], w)
        /\ ugrad[w] # NoVec => Private(ugrad[w], w)

(***************************************************************************)
(* C23: every job the producer enqueues holds at least one sentence, and a *)
(* sentence longer than batch_words is the only sentence of its job.       *)
(***************************************************************************)
Oversized(s) == Stream[s].raw > batch_words

C23_NoEmptyJob ==
    \A j \in JobIds :
        /\ dispatched[j].sents # <<>>
        /\ \A k \in 1..Len(dispatched[j].sents) :
              Oversized(dispatched[j].sents[k]) => Len(dispatched[j].sents) = 1

(***************************************************************************)
(* C24: within one train call the learning rates of the jobs, in dispatch  *)
(* order, never increase, the first job carries start_lr, every rate lies  *)
(* in [min_lr, start_lr], and a job keeps the rate it was enqueued with:   *)
(* the job in the queue or in a worker's hands is the job as dispatched,   *)
(* and no later step changes a job already dispatched.                     *)
(***************************************************************************)
RatesOrdered ==
    /\ \A j \in JobIds : end_lr <= dispatched[j].lr /\ dispatched[j].lr <= start_lr
    /\ dispatched # <<>> => dispatched[1].lr = start_lr
    /\ \A i \in JobIds, j \in JobIds : i < j => dispatched[i].lr >= dispatched[j].lr

JobsAsDispatched ==
    /\ \A k \in 1..Len(job_queue) :
          job_queue[k] # NoneJob => job_queue[k] = dispatched[job_queue[k].id]
    /\ \A w \in WorkerIds :
          pcW[w] = "report" => curJob[w] = dispatched[curJob[w].id]

DispatchedKept ==
    /\ Len(dispatched') >= Len(dispatched)
    /\ \A j \in JobIds : dispatched'[j] = dispatched[j]

C24_JobRatesNonIncreasing ==
    [](RatesOrdered /\ JobsAsDispatched) /\ [][DispatchedKept]_vars

\* Three jobs have been dispatched at falling rates and a worker holds the
\* second while the producer has moved on.
C24_Witness ==
    /\ Len(dispatched) >= 3
    /\ dispatched[1].lr > dispatched[2].lr
    /\ dispatched[2].lr > dispatched[3].lr
    /\ \E w \in WorkerIds : pcW[w] = "report" /\ curJob[w].id = 2
    /\ next_lr < dispatched[2].lr

(***************************************************************************)
(* C25: during read, whenever the next token is about to be added the      *)
(* dictionary holds at most floor(0.75 * max_vocab_size) words: every      *)
(* progressive threshold brings the size back to or under the bound.  So   *)
(* the hash table has a free slot and the probe loop of the find call in   *)
(* add ends.                                                               *)
(***************************************************************************)
C25_ReadKeepsFreeSlot ==
    pcBuild = "read" =>
        /\ 4 * vocabSize <= 3 * max_vocab_size
        /\ FreeSlotExists
        /\ read_idx < Len(sentence) => CanFind(CurDict, sentence[read_idx + 1])

\* A progressive threshold has run, a word has survived it, the table is at
\* the bound and a further token is about to be added.
C25_Witness ==
    /\ pcBuild = "read"
    /\ applied # <<>>
    /\ vocabSize >= 1
    /\ 4 * (vocabSize + 1) > 3 * max_vocab_size
    /\ read_idx < Len(sentence)
    /\ sentence[read_idx + 1] \notin WordsOf(CurDict)

(***************************************************************************)
(* C26: for every vocabulary build_vocab accepts and every target a call   *)
(* of get_negative ends within len(negatives) reads of the table, because  *)
(* the table holds an id different from the target.                        *)
(***************************************************************************)
HoldsOther(target) == \E k \in 1..Len(negatives) : negatives[k] # target

\* A call that no other worker disturbed has read every position of the
\* table (the cursor is back where the call started) and goes on reading.
ReadAllInVain(w) == gpc[w] = "read" /\ ~ginterfered[w] /\ negpos = gstart[w]

C26_GetNegativeTerminates ==
    \A w \in WorkerIds :
        gpc[w] # "idle" => HoldsOther(gtarget[w]) /\ ~ReadAllInVain(w)

====
